---------------------------- MODULE Spec2Model ----------------------------
(***************************************************************************)
(* Model of custom-sweatbox: the FSD-style relay server                    *)
(* (src/src/server/fsd_server.rs with controller_handler.rs,               *)
(* pilot_handler.rs and message_handler.rs) and its framing of the byte    *)
(* stream.                                                                 *)
(*                                                                         *)
(* Text is modelled as a sequence of one-character strings, so that        *)
(* contains / starts_with / split / join are computed as the code          *)
(* computes them.                                                          *)
(***************************************************************************)
EXTENDS Integers, Sequences, FiniteSets, TLC

\* ------------------------------------------------------------------ bounds
\* number of connections whose peer is a controller client
NCtrl == 2
\* number of connections whose peer is a pilot client
NPilot == 1
\* messages read by the server, over all connections
MaxReads == 4
\* peers that close or reset their socket or stop reading
MaxFaults == 1
\* length of the byte stream in the framing specification
MaxStream == 5
\* messages each sender sends in the ordering specification
MaxSent == 2
\* characters after the callsign in the flight plans of the input specification
MaxTail == 2
\* callsigns the generator can draw
NCallsigns == 2
\* ticks of the simulation loop
MaxTicks == 25
\* fixes on the route of the aircraft under update
MaxFixes == 2
\* milliseconds since its spawn up to which the aircraft is updated
MaxElapsed == 9000
\* calls of turn_towards in a row
MaxTurns == 300
\* simulator.rs: generate_callsign, for _ in 0..100
CallsignAttempts == 100
\* simulator.rs: run, if loop_count % 25 == 0
PositionEvery == 25

Conn == 1..(NCtrl + NPilot)
CtrlPeers == 1..NCtrl
PilotPeers == (NCtrl + 1)..(NCtrl + NPilot)

\* ------------------------------------------------------- text primitives
Range(s) == { s[i] : i \in 1..Len(s) }

\* str::starts_with
StartsWith(s, p) ==
    /\ Len(p) <= Len(s)
    /\ SubSeq(s, 1, Len(p)) = p

\* str::contains
Contains(s, p) ==
    \E i \in 1..(Len(s) - Len(p) + 1) : SubSeq(s, i, i + Len(p) - 1) = p

\* str::split(d): the pieces between the occurrences of d found from the
\* left, empty pieces kept; the split of the empty text is one empty piece.
\* SplitAt scans s from position i on, the current piece having begun at b
RECURSIVE SplitAt(_, _, _, _)
SplitAt(s, d, i, b) ==
    IF i + Len(d) - 1 > Len(s)
    THEN << SubSeq(s, b, Len(s)) >>
    ELSE IF SubSeq(s, i, i + Len(d) - 1) = d
    THEN << SubSeq(s, b, i - 1) >> \o SplitAt(s, d, i + Len(d), i + Len(d))
    ELSE SplitAt(s, d, i + 1, b)

Split(s, d) == SplitAt(s, d, 1, 1)

\* [&str]::join(d)
RECURSIVE Join(_, _)
Join(parts, d) ==
    IF Len(parts) = 0 THEN << >>
    ELSE IF Len(parts) = 1 THEN parts[1]
    ELSE parts[1] \o d \o Join(Tail(parts), d)

COLON == << ":" >>
CRLF == << "\r", "\n" >>

\* message_handler.rs: es_convert
es_convert(parts) == Join(parts, COLON) \o CRLF

\* ------------------------------------------------------- sample messages
\* #AA<cs>:S:n:i:w:r:v:s:u:a:o:g   (controller login, 12 fields)
CtrlLogin(cs) ==
    <<"#","A","A">> \o cs \o <<":","S",":","n",":","i",":","w",":","r",":","v",":","s",":","u",":","a",":","o",":","g">>
\* #AA<cs>:S   (controller login with fewer than 12 fields)
CtrlLoginShort(cs) ==
    <<"#","A","A">> \o cs \o <<":","S">>
\* %<cs>:f:c:v:r:b:p:e   (controller position, 8 fields)
CtrlPos(cs) ==
    <<"%">> \o cs \o <<":","f",":","c",":","v",":","r",":","b",":","p",":","e">>
\* %<cs>X:f:c:v:r:b:p:e   (controller position carrying the callsign <cs>X)
CtrlPosOther(cs) ==
    <<"%">> \o cs \o <<"X",":","f",":","c",":","v",":","r",":","b",":","p",":","e">>
\* $CQ<cs>:S:FP:<plane>   (flight-plan query about the pilot <plane>)
CqFp(cs, plane) ==
    <<"$","C","Q">> \o cs \o <<":","S",":","F","P",":">> \o plane
\* $CQ<cs>:S:WH:<plane>   (query with a subtype other than IP and FP)
CqOther(cs, plane) ==
    <<"$","C","Q">> \o cs \o <<":","S",":","W","H",":">> \o plane
\* $HO<cs>:J:<plane>   (handoff request)
Handoff(cs, plane) ==
    <<"$","H","O">> \o cs \o <<":","J",":">> \o plane
\* #AP<cs>:S:i:w:r:v:s:n   (pilot login, 8 fields)
PilotLogin(cs) ==
    <<"#","A","P">> \o cs \o <<":","S",":","i",":","w",":","r",":","v",":","s",":","n">>
\* @N:<cs>:7:1:a:o:l:g:h:x   (pilot position, squawk 7)
PilotPos(cs) ==
    <<"@","N",":">> \o cs \o <<":","7",":","1",":","a",":","o",":","l",":","g",":","h",":","x">>
\* @N:<cs>Y:7:1:a:o:l:g:h:x   (pilot position carrying the callsign <cs>Y)
PilotPosOther(cs) ==
    <<"@","N",":">> \o cs \o <<"Y",":","7",":","1",":","a",":","o",":","l",":","g",":","h",":","x">>
\* $FP<cs>:*A:I::E:R   (flight plan with an empty field)
FlightPlan(cs) ==
    <<"$","F","P">> \o cs \o <<":","*","A",":","I",":",":","E",":","R">>
\* #TM<cs>:K:t   (any other pilot message)
PilotText(cs) ==
    <<"#","T","M">> \o cs \o <<":","K",":","t">>


\* the callsign the client of connection c logs in with unless it takes another
Digits == << "1", "2", "3", "4", "5", "6", "7", "8", "9" >>
Call(c) == IF c \in CtrlPeers THEN << "K", Digits[c] >> ELSE << "P", Digits[c] >>

\* a pilot callsign that contains the letters AA
CallAA == << "A", "A", "L" >>

\* the pilot the controllers ask about
Plane == Call(NCtrl + 1)

\* the logins a client opens its connection with: a controller under its own
\* callsign, under the callsign of the first controller, or with too few
\* fields; a pilot under its own callsign or under CallAA
Logins(c) ==
    IF c \in CtrlPeers
    THEN { [m |-> CtrlLogin(Call(c)), me |-> Call(c)],
           [m |-> CtrlLogin(Call(1)), me |-> Call(1)],
           [m |-> CtrlLoginShort(Call(c)), me |-> Call(c)] }
    ELSE { [m |-> PilotLogin(Call(c)), me |-> Call(c)],
           [m |-> PilotLogin(CallAA), me |-> CallAA] }

\* the messages a client that logged in as cs sends after its login
Messages(c, cs) ==
    IF c \in CtrlPeers
    THEN { [m |-> CtrlPos(cs), me |-> cs],
           [m |-> CtrlPosOther(cs), me |-> cs],
           [m |-> CqFp(cs, Plane), me |-> cs],
           [m |-> CqOther(cs, Plane), me |-> cs],
           [m |-> Handoff(cs, Plane), me |-> cs] }
    ELSE { [m |-> PilotPos(cs), me |-> cs],
           [m |-> PilotPosOther(cs), me |-> cs],
           [m |-> FlightPlan(cs), me |-> cs],
           [m |-> PilotText(cs), me |-> cs] }

Menu(c, first, cs) == IF first THEN Logins(c) ELSE Messages(c, cs)

\* a split that leaves the empty fields out
parse_message_no_empty(message) ==
    SelectSeq(Split(message, COLON), LAMBDA f : f # << >>)

\* message_handler.rs: parse_message
parse_message(message) == Split(message, COLON)

\* ------------------------------------------------------------ role handlers
Handled == "Handled"
ForwardToControllers == "ForwardToControllers"
ForwardToAllControllers == "ForwardToAllControllers"

NoHandler == [callsign |-> << >>]

\* controller_handler.rs: ControllerHandler::new
ControllerNew ==
    [callsign |-> << >>, server |-> << >>, cid |-> << >>, name |-> << >>,
     password |-> << >>, lat |-> << >>, lon |-> << >>, range |-> << >>,
     freq |-> << >>]

\* pilot_handler.rs: PilotHandler::new
PilotNew ==
    [callsign |-> << >>, server |-> << >>, cid |-> << >>, name |-> << >>,
     password |-> << >>, lat |-> << >>, lon |-> << >>,
     squawk |-> << "0", "0", "0", "0" >>, fp_message |-> << >>]

\* controller_handler.rs: ControllerHandler::handle
\* (the welcome and IP replies are written by detached tasks with try_write)
ControllerHandle(h, message) ==
    LET parts == parse_message(message)
    IN  IF StartsWith(parts[1], << "#", "A", "A" >>)
        THEN [h |-> IF Len(parts) >= 12
                    THEN [h EXCEPT !.callsign = SubSeq(parts[1], 4, Len(parts[1])),
                                   !.server = parts[2],
                                   !.name = parts[3],
                                   !.cid = parts[4],
                                   !.password = parts[5],
                                   !.lat = parts[10],
                                   !.lon = parts[11],
                                   !.range = parts[12]]
                    ELSE h,
              status |-> Handled]
        ELSE IF StartsWith(parts[1], << "%" >> \o h.callsign)
        THEN [h |-> IF Len(parts) >= 7
                    THEN [h EXCEPT !.freq = parts[2],
                                   !.lat = parts[6],
                                   !.lon = parts[7]]
                    ELSE h,
              status |-> ForwardToControllers]
        ELSE IF StartsWith(parts[1], << "$", "C", "Q" >> \o h.callsign)
        THEN [h |-> h,
              status |-> IF /\ Len(parts) >= 3
                            /\ parts[3] \in { << "I", "P" >>, << "F", "P" >> }
                         THEN Handled
                         ELSE ForwardToControllers]
        ELSE [h |-> h, status |-> ForwardToControllers]

\* pilot_handler.rs: PilotHandler::handle
PilotHandle(h, message) ==
    LET parts == parse_message(message)
    IN  IF StartsWith(parts[1], << "#", "A", "P" >>)
        THEN [h |-> IF Len(parts) >= 8
                    THEN [h EXCEPT !.callsign = SubSeq(parts[1], 4, Len(parts[1])),
                                   !.server = parts[2],
                                   !.cid = parts[3],
                                   !.password = parts[4],
                                   !.name = parts[8]]
                    ELSE h,
              status |-> Handled]
        ELSE IF StartsWith(parts[1], << "@", "N" >>)
        THEN [h |-> IF Len(parts) >= 3
                    THEN [h EXCEPT !.squawk = parts[3]]
                    ELSE h,
              status |-> ForwardToAllControllers]
        ELSE IF StartsWith(parts[1], << "$", "F", "P" >>)
        THEN [h |-> [h EXCEPT !.fp_message = parts],
              status |-> ForwardToAllControllers]
        ELSE [h |-> h, status |-> ForwardToAllControllers]

\* fsd_server.rs: the role chosen for a connection from its first message
ClassifyRole(message) ==
    IF Contains(message, << "A", "A" >>) THEN "Controller"
    ELSE IF Contains(message, << "A", "P" >>) THEN "Pilot"
    ELSE "None"

\* a forward test that compares callsigns only, without the empty-exclusion case
ForwardConditionCompareOnly(exclude_callsign, ctrl_callsign) ==
    ctrl_callsign # exclude_callsign

\* fsd_server.rs: forward_to_controllers, the test that lets a recipient
\* with callsign ctrl_callsign receive the message
ForwardCondition(exclude_callsign, ctrl_callsign) ==
    exclude_callsign = << >> \/ ctrl_callsign # exclude_callsign

\* a forward loop that returns the error of a failed send
AfterSendAbort(ok, i, len) ==
    IF ~ok THEN "ended"
    ELSE IF i + 1 > len THEN "fwd_done" ELSE "fwd_send"

\* fsd_server.rs: forward_to_controllers, where the loop goes after a send
\* (ok or failed) to the recipient at position i of len
AfterSend(ok, i, len) ==
    IF i + 1 > len THEN "fwd_done" ELSE "fwd_send"

\* fsd_server.rs: the message is a flight-plan query to be answered
IsFlightPlanQuery(message) ==
    /\ Contains(message, << "$", "C", "Q" >>)
    /\ Contains(message, << "F", "P" >>)

\* a squawk reply that carries the squawk a new pilot handler starts with
SquawkReplyInitial(message, squawk) ==
    LET parts == parse_message(message)
    IN  << << "$", "C", "Q" >> \o parts[2], parts[2], << "B", "C" >>, parts[4],
           PilotNew.squawk >>

\* fsd_server.rs: handle_flight_plan_query, the squawk reply
SquawkReply(message, squawk) ==
    LET parts == parse_message(message)
    IN  << << "$", "C", "Q" >> \o parts[2], parts[2], << "B", "C" >>, parts[4], squawk >>



\* -------------------------------------------------------------------- state
VARIABLES
    pc,             \* per connection: where its handle_client task stands
    peer,           \* per connection: "up", "closed" (sent EOF), "reset" (I/O fails), "stalled" (stopped reading)
    me,             \* per connection: the callsign its client took at login
    reads,          \* messages read by the server so far
    first_message,  \* per connection: handle_client's first_message
    handler_type,   \* per connection: handle_client's handler_type
    handler,        \* per connection: its ControllerHandler / PilotHandler fields
    msg,            \* per connection: the message being processed
    status,         \* per connection: the MessageStatus of that message
    idx,            \* per connection: position of its loop over a registry collection
    out,            \* per connection: the socket writes made so far for msg
    done,           \* the message whose processing the last step completed, with its writes
    controllers,    \* FsdServer.controllers (connections stand for the Arc pointers)
    pilots,         \* FsdServer.pilots
    ctrlLock,       \* holder of the mutex of controllers, 0 when free
    pilotLock,      \* holder of the mutex of pilots, 0 when free
    hLock,          \* per connection: holder of the mutex of its handler, 0 when free
    stream,         \* framing: the bytes a client sends
    rest,           \* framing: the bytes not yet returned by a socket read
    handledMsgs,    \* framing: the messages passed to the role handler so far
    sent,           \* ordering: per connection, the messages read from it so far
    wire,           \* ordering: per connection, what was written to its socket, in order
    assigned,       \* squawk pool: the squawks handed out so far, in order
    simulator,      \* the fields of the Simulator and the locals of Simulator::run
    flight          \* the fields of one Aircraft that a specification follows

vars ==
    << pc, peer, me, reads, first_message, handler_type, handler, msg, status,
       idx, out, done, controllers, pilots, ctrlLock, pilotLock, hLock,
       stream, rest, handledMsgs, sent, wire, assigned, simulator, flight >>

relayVars ==
    << pc, peer, me, reads, first_message, handler_type, handler, msg, status,
       idx, out, done, controllers, pilots, ctrlLock, pilotLock, hLock >>

frameVars == << stream, rest, handledMsgs >>

orderVars == << sent, wire >>

poolVars == << assigned >>

simVars == << simulator >>

\* Simulator.squawk_pool
squawk_pool == simulator.squawk_pool

\* Simulator.aircraft
aircraft == simulator.aircraft

\* Simulator.pilot_clients, the callsigns with an open pilot session
pilot_clients == simulator.pilot_clients

\* Simulator.used_callsigns
used_callsigns == simulator.used_callsigns

\* Simulator::run, loop_count
loop_count == simulator.loop_count

\* Simulator::run, departure_timers
departure_timers == simulator.departure_timers

\* where the task of Simulator::run stands
sim_pc == simulator.pc

\* check_departure_spawns, the position of its loop over the timers
timer_idx == simulator.timer_idx

\* generate_callsign, the turns of its loop that have rejected their draw
attempts == simulator.attempts

\* "running", or how Simulator::run returned
run_result == simulator.run_result

\* no message was completed by the last step
NoDone ==
    [from |-> 0, msg |-> << >>, status |-> "None", excl |-> << >>,
     out |-> << >>, found |-> 0, res |-> "none"]

RelayInit ==
    /\ pc = [c \in Conn |-> "read"]
    /\ peer = [c \in Conn |-> "up"]
    /\ me = [c \in Conn |-> << >>]
    /\ reads = 0
    /\ first_message = [c \in Conn |-> TRUE]
    /\ handler_type = [c \in Conn |-> "None"]
    /\ handler = [c \in Conn |-> NoHandler]
    /\ msg = [c \in Conn |-> << >>]
    /\ status = [c \in Conn |-> Handled]
    /\ idx = [c \in Conn |-> 0]
    /\ out = [c \in Conn |-> << >>]
    /\ done = NoDone
    /\ controllers = << >>
    /\ pilots = << >>
    /\ ctrlLock = 0
    /\ pilotLock = 0
    /\ hLock = [c \in Conn |-> 0]

FrameIdle ==
    /\ stream = << >>
    /\ rest = << >>
    /\ handledMsgs = << >>

OrderIdle ==
    /\ sent = [c \in Conn |-> 0]
    /\ wire = [c \in Conn |-> << >>]

PoolIdle == assigned = << >>

aircraftVars == << flight >>

\* no aircraft under update
AircraftIdle == flight = << >>

\* Simulator.ai_controllers
ai_controllers == simulator.ai_controllers

\* the shutdown channel of run holds a signal
shutdown == simulator.shutdown

\* the pilot sessions and the controller sessions on which disconnect() has
\* returned Ok
disconnected == simulator.disconnected

\* what stop has returned
stop_result == simulator.stop_result

\* simulator.rs: Simulator::new, with the locals of run before its loop; the
\* pool is filled by the specifications of the simulator
new_simulator ==
    [ squawk_pool |-> << >>, aircraft |-> << >>, pilot_clients |-> { },
      used_callsigns |-> { }, loop_count |-> 0, departure_timers |-> << >>,
      pc |-> "tick", timer_idx |-> 0, attempts |-> 0, run_result |-> "running",
      ai_controllers |-> << >>, shutdown |-> FALSE, disconnected |-> [ pilots |-> { }, controllers |-> { } ],
      stop_result |-> "none" ]

SimIdle == simulator = new_simulator

Init ==
    /\ RelayInit
    /\ FrameIdle
    /\ OrderIdle
    /\ PoolIdle
    /\ SimIdle
    /\ AircraftIdle

Remove(list, c) == SelectSeq(list, LAMBDA h : h # c)

Faults == Cardinality({ c \in Conn : peer[c] # "up" })

\* connections are numbered, among the controller clients and among the
\* pilot clients, in the order in which they first speak
InTurn(c) ==
    \A d \in Conn :
        ((d \in CtrlPeers <=> c \in CtrlPeers) /\ d < c) => ~first_message[d]

\* fsd_server.rs: handle_client, the sender_callsign passed to
\* forward_to_controllers for a message with the status st of a connection
\* with the given role and callsign
SenderCallsign(role, callsign, st) ==
    IF st = ForwardToControllers /\ role = "Controller" THEN callsign ELSE << >>

\* what the peers do while a task writes to the connections of S: a peer that
\* was up may reset its connection or stop reading, within the bound
Outcomes(S) ==
    LET cand == { x \in S : peer[x] = "up" }
        sets == { X \in SUBSET cand : Cardinality(X) <= MaxFaults - Faults }
        kinds == UNION { [X -> { "reset", "stalled" }] : X \in sets }
    IN  { [x \in Conn |-> IF x \in DOMAIN k THEN k[x] ELSE peer[x]] : k \in kinds }

\* fsd_server.rs: forward_to_controllers, the loop over the collection ctrls
\* from position i on, with acc the writes made so far, hs the handlers and
\* pr the state of the peers: each controller is locked in turn and either
\* skipped (excluded) or written to; the write succeeds, fails, or (stalled
\* peer) never returns. The result tells where and how the loop stands:
\* "fwd_done" (returned Ok), "fwd_lock" (waits for the handler's mutex),
\* "fwd_write" (inside the write), "ended" (returned Err)
RECURSIVE forward_to_controllers(_, _, _, _, _, _, _)
forward_to_controllers(message, exclude_callsign, i, acc, ctrls, hs, pr) ==
    IF i > Len(ctrls)
    THEN [out |-> acc, at |-> i, end |-> "fwd_done"]
    ELSE LET r == ctrls[i]
         IN  IF hLock[r] # 0
             THEN [out |-> acc, at |-> i, end |-> "fwd_lock"]
             ELSE IF ~ForwardCondition(exclude_callsign, hs[r].callsign)
             THEN forward_to_controllers(message, exclude_callsign, i + 1, acc,
                                         ctrls, hs, pr)
             ELSE IF pr[r] = "stalled"
             THEN [out |-> acc, at |-> i, end |-> "fwd_write"]
             ELSE LET ok == pr[r] # "reset"
                      acc2 == Append(acc, [to |-> r,
                                           data |-> es_convert(<< message >>),
                                           ok |-> ok])
                      next == AfterSend(ok, i, Len(ctrls))
                  IN  IF next = "fwd_send"
                      THEN forward_to_controllers(message, exclude_callsign, i + 1,
                                                  acc2, ctrls, hs, pr)
                      ELSE [out |-> acc2, at |-> i + 1, end |-> next]

\* the connections a forward over ctrls with the result r has written to
Written(r, ctrls) ==
    { r.out[k].to : k \in 1..Len(r.out) }
    \cup (IF r.end = "fwd_write" THEN { ctrls[r.at] } ELSE { })

\* fsd_server.rs: handle_flight_plan_query, the loop over the collection pls
\* from position i on: the position of the first pilot that is locked by
\* another task or has the callsign plane_callsign, Len(pls) + 1 when there
\* is none
RECURSIVE FindPilot(_, _, _, _)
FindPilot(plane_callsign, i, pls, hs) ==
    IF i > Len(pls) THEN i
    ELSE IF hLock[pls[i]] # 0 THEN i
    ELSE IF hs[pls[i]].callsign = plane_callsign THEN i
    ELSE FindPilot(plane_callsign, i + 1, pls, hs)

\* fsd_server.rs: handle_flight_plan_query, what is sent to the requesting
\* controller about the pilot with the handler hp: the cached flight plan
\* when there is one, then the squawk
Answers(message, hp) ==
    (IF hp.fp_message # << >> THEN << hp.fp_message >> ELSE << >>)
    \o << SquawkReply(message, hp.squawk) >>

\* fsd_server.rs: handle_flight_plan_query with ControllerHandler::send_message,
\* the writes of the answers from position k on to the requesting controller
\* c, whose peer is in the state pr: each takes the mutex of c's handler and
\* succeeds, fails (the error is returned) or never returns
RECURSIVE SendAnswers(_, _, _, _, _)
SendAnswers(c, answers, k, acc, pr) ==
    IF k > Len(answers)
    THEN [out |-> acc, end |-> "fpq_done"]
    ELSE IF hLock[c] # 0
    THEN [out |-> acc, end |-> "fpq_lock"]
    ELSE IF pr = "stalled"
    THEN [out |-> acc, end |-> "fpq_write"]
    ELSE LET ok == pr # "reset"
             acc2 == Append(acc, [to |-> c, data |-> es_convert(answers[k]), ok |-> ok])
         IN  IF ok THEN SendAnswers(c, answers, k + 1, acc2, pr)
             ELSE [out |-> acc2, end |-> "ended"]

\* what the step that completes the message m of c leaves in done
Completed(c, m, st, excl, writes, found, res) ==
    [from |-> c, msg |-> m, status |-> st, excl |-> excl, out |-> writes,
     found |-> found, res |-> res]

\* ------------------------------------------------------------------ actions
\* Between two reads the steps of a handle_client task are taken as one step:
\* its locks are held by no task that goes on, and the steps other tasks take
\* in between commute with its own. The step stops early where the task waits
\* for a mutex another task keeps or for a write that never returns.

\* fsd_server.rs: handle_client, the cleanup after the loop: the handler is
\* taken out of its collection under the collection's mutex, for which the
\* task waits while another holds it
Cleanup(c) ==
    LET lock == IF handler_type[c] = "Controller" THEN ctrlLock
                ELSE IF handler_type[c] = "Pilot" THEN pilotLock
                ELSE 0
    IN  /\ pc' = [pc EXCEPT ![c] = IF lock = 0 THEN "ended" ELSE "cleanup"]
        /\ controllers' = IF handler_type[c] = "Controller" /\ lock = 0
                          THEN Remove(controllers, c) ELSE controllers
        /\ pilots' = IF handler_type[c] = "Pilot" /\ lock = 0
                     THEN Remove(pilots, c) ELSE pilots

\* fsd_server.rs: handle_client, read returns Ok(0): the peer, logged in
\* before, has shut down its sending side
ReadEof(c) ==
    /\ pc[c] = "read"
    /\ done = NoDone
    /\ peer[c] = "up"
    /\ ~first_message[c]
    /\ Faults < MaxFaults
    /\ peer' = [peer EXCEPT ![c] = "closed"]
    /\ Cleanup(c)
    /\ UNCHANGED << me, reads, first_message, handler_type, handler, msg, status,
                    idx, out, done, ctrlLock, pilotLock, hLock >>
    /\ UNCHANGED << frameVars, orderVars, poolVars, simVars, aircraftVars >>

\* fsd_server.rs: handle_client, read returns Err: the peer, logged in
\* before, has reset the connection, now or during an earlier write
ReadErr(c) ==
    /\ pc[c] = "read"
    /\ done = NoDone
    /\ \/ peer[c] = "reset"
       \/ peer[c] = "up" /\ ~first_message[c] /\ Faults < MaxFaults
    /\ peer' = [peer EXCEPT ![c] = "reset"]
    /\ Cleanup(c)
    /\ UNCHANGED << me, reads, first_message, handler_type, handler, msg, status,
                    idx, out, done, ctrlLock, pilotLock, hLock >>
    /\ UNCHANGED << frameVars, orderVars, poolVars, simVars, aircraftVars >>

\* fsd_server.rs: handle_client, a message with nothing to send is completed
Complete(c, m, st) ==
    /\ done' = Completed(c, m, st, << >>, << >>, 0, "ok")
    /\ UNCHANGED << pc, msg, status, idx, out, ctrlLock, pilotLock, hLock >>

\* the task of c stops inside the processing of m, at the place and with the
\* writes, position and locks given
Stopped(c, m, st, place, at, writes, cl, pl, hl) ==
    /\ pc' = [pc EXCEPT ![c] = place]
    /\ msg' = [msg EXCEPT ![c] = m]
    /\ status' = [status EXCEPT ![c] = st]
    /\ idx' = [idx EXCEPT ![c] = at]
    /\ out' = [out EXCEPT ![c] = writes]
    /\ ctrlLock' = cl
    /\ pilotLock' = pl
    /\ hLock' = hl
    /\ done' = NoDone

\* the call made for the message m of c has returned, Ok or with an error
\* that ends handle_client before its cleanup
Returned(c, m, st, excl, writes, found, ok) ==
    /\ pc' = [pc EXCEPT ![c] = IF ok THEN "read" ELSE "ended"]
    /\ done' = Completed(c, m, st, excl, writes, found, IF ok THEN "ok" ELSE "err")
    /\ UNCHANGED << msg, status, idx, out, ctrlLock, pilotLock, hLock >>

\* fsd_server.rs: handle_client calls forward_to_controllers: the mutex of
\* controllers is taken and the message written to the controllers in turn;
\* the call returns, or stays inside a write or a lock with its guards kept
Forward(c, m, st, role, ctrls, hs) ==
    IF ctrlLock # 0
    THEN /\ Stopped(c, m, st, "fwd", 0, << >>, ctrlLock, pilotLock, hLock)
         /\ UNCHANGED peer
    ELSE \E pr \in Outcomes(Range(ctrls)) :
           LET excl == SenderCallsign(role, hs[c].callsign, st)
               r == forward_to_controllers(m, excl, 1, << >>, ctrls, hs, pr)
           IN  /\ \A x \in Conn : pr[x] # peer[x] => x \in Written(r, ctrls)
               /\ peer' = pr
               /\ IF r.end \in { "fwd_done", "ended" }
                  THEN Returned(c, m, st, excl, r.out, 0, r.end = "fwd_done")
                  ELSE Stopped(c, m, st, r.end, r.at, r.out, c, pilotLock,
                               IF r.end = "fwd_write"
                               THEN [hLock EXCEPT ![ctrls[r.at]] = c]
                               ELSE hLock)

\* fsd_server.rs: handle_client calls handle_flight_plan_query: the mutex of
\* pilots is taken, the pilots are locked in turn and the first one with the
\* callsign asked for is kept locked while its flight plan and its squawk are
\* written to the requesting controller; a failed write returns the error
\* from handle_client, which ends without its cleanup
AnswerQuery(c, m, st, role, pls, hs) ==
    IF pilotLock # 0
    THEN /\ Stopped(c, m, st, "fpq", 0, << >>, ctrlLock, pilotLock, hLock)
         /\ UNCHANGED peer
    ELSE \E pr \in Outcomes({ c }) :
           LET i == FindPilot(parse_message(m)[4], 1, pls, hs)
               found == i <= Len(pls) /\ hLock[pls[i]] = 0
               p == IF i <= Len(pls) THEN pls[i] ELSE 0
               r == IF ~found \/ role # "Controller"
                    THEN [out |-> << >>,
                          end |-> IF i <= Len(pls) /\ ~found THEN "fpq_lock"
                                  ELSE "fpq_done"]
                    ELSE SendAnswers(c, Answers(m, hs[p]), 1, << >>, pr[c])
           IN  /\ pr # peer => (r.out # << >> \/ r.end = "fpq_write")
               /\ peer' = pr
               /\ IF r.end \in { "fpq_done", "ended" }
                  THEN Returned(c, m, st, << >>, r.out, p, r.end = "fpq_done")
                  ELSE Stopped(c, m, st, r.end, i, r.out, ctrlLock, c,
                               [x \in Conn |->
                                  IF found /\ x = p THEN c
                                  ELSE IF r.end = "fpq_write" /\ x = c THEN c
                                  ELSE hLock[x]])

\* fsd_server.rs: handle_client, the role is looked for in every message for
\* as long as the connection has none
decides_role_while_unknown(first, type) == first \/ type = "None"

\* fsd_server.rs: handle_client, if first_message: the message decides the
\* role of the connection
decides_role(first, type) == first

\* fsd_server.rs: handle_client, one message is read; on the first message
\* the role is chosen and the new handler pushed to its collection; then the
\* message is handled under the handler's lock and, by the status returned,
\* completed, forwarded or answered. The task waits ("reg", "handle") where
\* another keeps the mutex of the collection or of the handler
Receive(c, e) ==
    /\ pc[c] = "read"
    /\ done = NoDone
    /\ peer[c] \in { "up", "stalled" }
    /\ first_message[c] => InTurn(c)
    /\ reads < MaxReads
    /\ reads' = reads + 1
    /\ me' = [me EXCEPT ![c] = e.me]
    /\ first_message' = [first_message EXCEPT ![c] = FALSE]
    /\ LET m == e.m
           reg == decides_role(first_message[c], handler_type[c])
           role == IF reg THEN ClassifyRole(m) ELSE handler_type[c]
           h0 == IF ~reg THEN handler[c]
                 ELSE IF role = "Controller" THEN ControllerNew
                 ELSE IF role = "Pilot" THEN PilotNew
                 ELSE NoHandler
           ctrls == IF reg /\ role = "Controller" THEN Append(controllers, c)
                    ELSE controllers
           pls == IF reg /\ role = "Pilot" THEN Append(pilots, c) ELSE pilots
           r == IF role = "Controller" THEN ControllerHandle(h0, m)
                ELSE IF role = "Pilot" THEN PilotHandle(h0, m)
                ELSE [h |-> h0, status |-> "None"]
           hs == [handler EXCEPT ![c] = r.h]
       IN  IF \/ reg /\ role = "Controller" /\ ctrlLock # 0
              \/ reg /\ role = "Pilot" /\ pilotLock # 0
           THEN /\ Stopped(c, m, Handled, "reg", 0, << >>, ctrlLock, pilotLock, hLock)
                /\ UNCHANGED << peer, handler_type, handler, controllers, pilots >>
           ELSE /\ handler_type' = [handler_type EXCEPT ![c] = role]
                /\ controllers' = ctrls
                /\ pilots' = pls
                /\ IF role # "None" /\ hLock[c] # 0
                   THEN /\ Stopped(c, m, Handled, "handle", 0, << >>, ctrlLock,
                                   pilotLock, hLock)
                        /\ handler' = [handler EXCEPT ![c] = h0]
                        /\ UNCHANGED peer
                   ELSE /\ handler' = hs
                        /\ IF r.status \in { ForwardToControllers,
                                             ForwardToAllControllers }
                           THEN Forward(c, m, r.status, role, ctrls, hs)
                           ELSE IF /\ r.status = Handled
                                   /\ IsFlightPlanQuery(m)
                                   /\ Len(parse_message(m)) >= 4
                           THEN AnswerQuery(c, m, r.status, role, pls, hs)
                           ELSE /\ Complete(c, m, r.status)
                                /\ UNCHANGED peer
    /\ UNCHANGED << frameVars, orderVars, poolVars, simVars, aircraftVars >>

\* fsd_server.rs: handle_client, the loop goes on to its next message: what
\* the processing of the last one has written is looked at no more
NextMessage ==
    /\ done # NoDone
    /\ done' = NoDone
    /\ UNCHANGED << pc, peer, me, reads, first_message, handler_type, handler, msg,
                    status, idx, out, controllers, pilots, ctrlLock, pilotLock, hLock >>
    /\ UNCHANGED << frameVars, orderVars, poolVars, simVars, aircraftVars >>

RelayNext ==
    \/ \E c \in Conn :
          \/ \E e \in Menu(c, first_message[c], me[c]) : Receive(c, e)
          \/ ReadEof(c)
          \/ ReadErr(c)
    \/ NextMessage

Next == RelayNext

\* the relay server with its connections
Spec == Init /\ [][Next]_vars

\* ----------------------------------------------------------------- framing
Bytes == { "a", "b", "\r", "\n" }

RECURSIVE SeqsOfLen(_)
SeqsOfLen(n) ==
    IF n = 0 THEN { << >> }
    ELSE { Append(s, b) : s \in SeqsOfLen(n - 1), b \in Bytes }

EndsWith(s, p) ==
    /\ Len(p) <= Len(s)
    /\ SubSeq(s, Len(s) - Len(p) + 1, Len(s)) = p

\* the byte streams of a client that sends whole CRLF-terminated lines
Streams ==
    { s \in UNION { SeqsOfLen(n) : n \in 0..MaxStream } : s = << >> \/ EndsWith(s, CRLF) }

NonEmpty(pieces) == SelectSeq(pieces, LAMBDA p : p # << >>)

\* fsd_server.rs: handle_client, the messages taken from the bytes of one read
MessagesOfRead(data) == NonEmpty(Split(data, CRLF))

FrameInit ==
    /\ RelayInit
    /\ OrderIdle
    /\ PoolIdle
    /\ SimIdle
    /\ AircraftIdle
    /\ stream \in Streams
    /\ rest = stream
    /\ handledMsgs = << >>

\* fsd_server.rs: handle_client, one socket read returns the next n bytes and
\* every non-empty piece of their split on CRLF goes to the role handler
SocketRead(n) ==
    /\ n \in 1..Len(rest)
    /\ handledMsgs' = handledMsgs \o MessagesOfRead(SubSeq(rest, 1, n))
    /\ rest' = SubSeq(rest, n + 1, Len(rest))
    /\ UNCHANGED stream
    /\ UNCHANGED << relayVars, orderVars, poolVars, simVars, aircraftVars >>

FrameNext == \E n \in 1..MaxStream : SocketRead(n)

\* one connection's byte stream under every split into socket reads
FrameSpec == FrameInit /\ [][FrameNext]_vars
\* ------------------------------------------------------------------ ordering
\* The forwards of several sessions at the grain of the mutexes: a
\* handle_client task reads and handles one message, waits for the mutex of
\* the controllers collection, writes to the controllers one by one and
\* returns to its read; the tasks of other sessions run in between.

\* the sessions that send side by side: a controller and a pilot
Senders == { NCtrl, NCtrl + 1 }

\* the k-th message a session sends (a handoff from a controller, a text
\* message from a pilot), numbered in its last field
NthMessage(c, k) ==
    IF c \in CtrlPeers THEN Handoff(Call(c), Plane) \o << Digits[k] >>
    ELSE PilotText(Call(c)) \o << Digits[k] >>

\* fsd_server.rs: the registry once every client has logged in, each with its
\* own callsign
LoggedIn(c) ==
    IF c \in CtrlPeers THEN ControllerHandle(ControllerNew, CtrlLogin(Call(c))).h
    ELSE PilotHandle(PilotNew, PilotLogin(Call(c))).h

OrderInit ==
    /\ pc = [c \in Conn |-> "read"]
    /\ peer = [c \in Conn |-> "up"]
    /\ me = [c \in Conn |-> Call(c)]
    /\ reads = 0
    /\ first_message = [c \in Conn |-> FALSE]
    /\ handler_type = [c \in Conn |-> IF c \in CtrlPeers THEN "Controller" ELSE "Pilot"]
    /\ handler = [c \in Conn |-> LoggedIn(c)]
    /\ msg = [c \in Conn |-> << >>]
    /\ status = [c \in Conn |-> Handled]
    /\ idx = [c \in Conn |-> 0]
    /\ out = [c \in Conn |-> << >>]
    /\ done = NoDone
    /\ controllers = [i \in 1..NCtrl |-> i]
    /\ pilots = [i \in 1..NPilot |-> NCtrl + i]
    /\ ctrlLock = 0
    /\ pilotLock = 0
    /\ hLock = [c \in Conn |-> 0]
    /\ FrameIdle
    /\ OrderIdle
    /\ PoolIdle
    /\ SimIdle
    /\ AircraftIdle

\* controller_handler.rs: send_message, write_all appends the bytes to what
\* the socket has been given before
WriteAllFirst(w, from, n, data) == << [from |-> from, n |-> n, data |-> data] >> \o w

WriteAll(w, from, n, data) == Append(w, [from |-> from, n |-> n, data |-> data])

\* fsd_server.rs: handle_client, the task reads its next message and handles
\* it under the mutex of its handler; a status that forwards takes the task to
\* forward_to_controllers
OrderReceive(c) ==
    /\ c \in Senders
    /\ pc[c] = "read"
    /\ sent[c] < MaxSent
    /\ hLock[c] = 0
    /\ LET m == NthMessage(c, sent[c] + 1)
           r == IF handler_type[c] = "Controller" THEN ControllerHandle(handler[c], m)
                ELSE PilotHandle(handler[c], m)
       IN  /\ sent' = [sent EXCEPT ![c] = sent[c] + 1]
           /\ handler' = [handler EXCEPT ![c] = r.h]
           /\ msg' = [msg EXCEPT ![c] = m]
           /\ status' = [status EXCEPT ![c] = r.status]
           /\ pc' = [pc EXCEPT ![c] =
                        IF r.status \in { ForwardToControllers, ForwardToAllControllers }
                        THEN "fwd" ELSE "read"]
    /\ UNCHANGED << peer, me, reads, first_message, handler_type, idx, out, done,
                    controllers, pilots, ctrlLock, pilotLock, hLock, frameVars, poolVars, simVars, aircraftVars, wire >>

\* fsd_server.rs: forward_to_controllers, controllers.lock().await
OrderLock(c) ==
    /\ pc[c] = "fwd"
    /\ ctrlLock = 0
    /\ ctrlLock' = c
    /\ idx' = [idx EXCEPT ![c] = 1]
    /\ pc' = [pc EXCEPT ![c] = "fwd_send"]
    /\ UNCHANGED << peer, me, reads, first_message, handler_type, handler, msg, status,
                    out, done, controllers, pilots, pilotLock, hLock, frameVars,
                    poolVars, simVars, aircraftVars, orderVars >>

\* fsd_server.rs: forward_to_controllers, one turn of the loop: the controller
\* is locked and, unless excluded, written to; a failed write is only logged
OrderSend(c, ok) ==
    /\ pc[c] = "fwd_send"
    /\ idx[c] <= Len(controllers)
    /\ LET r == controllers[idx[c]]
           excl == SenderCallsign(handler_type[c], handler[c].callsign, status[c])
       IN  /\ hLock[r] = 0
           /\ IF ~ForwardCondition(excl, handler[r].callsign)
              THEN /\ ok
                   /\ UNCHANGED << peer, wire >>
              ELSE IF ok
              THEN /\ peer[r] = "up"
                   /\ wire' = [wire EXCEPT ![r] =
                                  WriteAll(wire[r], c, sent[c], es_convert(<< msg[c] >>))]
                   /\ UNCHANGED peer
              ELSE /\ \/ peer[r] = "reset"
                      \/ peer[r] = "up" /\ Faults < MaxFaults
                   /\ peer' = [peer EXCEPT ![r] = "reset"]
                   /\ UNCHANGED wire
    /\ idx' = [idx EXCEPT ![c] = idx[c] + 1]
    /\ UNCHANGED << pc, me, reads, first_message, handler_type, handler, msg, status,
                    out, done, controllers, pilots, ctrlLock, pilotLock, hLock,
                    frameVars, poolVars, simVars, aircraftVars, sent >>

\* fsd_server.rs: forward_to_controllers returns, the mutex of the collection
\* is released and handle_client goes on to its next message
OrderReturn(c) ==
    /\ pc[c] = "fwd_send"
    /\ idx[c] > Len(controllers)
    /\ ctrlLock' = 0
    /\ idx' = [idx EXCEPT ![c] = 0]
    /\ msg' = [msg EXCEPT ![c] = << >>]
    /\ pc' = [pc EXCEPT ![c] = "read"]
    /\ UNCHANGED << peer, me, reads, first_message, handler_type, handler, status,
                    out, done, controllers, pilots, pilotLock, hLock, frameVars,
                    poolVars, simVars, aircraftVars, orderVars >>

OrderNext ==
    \E c \in Conn :
        \/ OrderReceive(c)
        \/ OrderLock(c)
        \/ \E ok \in BOOLEAN : OrderSend(c, ok)
        \/ OrderReturn(c)

\* the sessions forward their messages side by side
OrderSpec == OrderInit /\ [][OrderNext]_vars

\* -------------------------------------------------- short and unusual input
\* The relay server, its clients sending short messages and flight plans with
\* empty fields.

\* #AP<cs>:S   (pilot login with fewer than 8 fields)
PilotLoginShort(cs) ==
    <<"#","A","P">> \o cs \o <<":","S">>
\* %<cs>:f:c   (controller position with fewer than 7 fields)
CtrlPosShort(cs) ==
    <<"%">> \o cs \o <<":","f",":","c">>
\* the texts of at most n characters made of colons and the letter V
RECURSIVE TailsOfLen(_)
TailsOfLen(n) ==
    IF n = 0 THEN { << >> }
    ELSE LET shorter == TailsOfLen(n - 1)
         IN  shorter \cup { Append(t, b) : t \in shorter, b \in { ":", "V" } }

\* $FP<cs><tail>   (flight plan whose fields after the callsign are any text,
\* empty fields at the end among them)
FlightPlanWith(cs, tail) ==
    <<"$","F","P">> \o cs \o tail

InputLogins(c) ==
    IF c \in CtrlPeers
    THEN { [m |-> CtrlLogin(Call(c)), me |-> Call(c)],
           [m |-> CtrlLoginShort(Call(c)), me |-> Call(c)] }
    ELSE { [m |-> PilotLogin(Call(c)), me |-> Call(c)],
           [m |-> PilotLoginShort(Call(c)), me |-> Call(c)] }

InputMessages(c, cs) ==
    IF c \in CtrlPeers
    THEN { [m |-> CtrlPosShort(cs), me |-> cs],
           [m |-> CqFp(cs, Plane), me |-> cs] }
    ELSE { [m |-> FlightPlan(cs), me |-> cs] }
         \cup { [m |-> FlightPlanWith(cs, t), me |-> cs] : t \in TailsOfLen(MaxTail) }

InputMenu(c, first, cs) == IF first THEN InputLogins(c) ELSE InputMessages(c, cs)

InputNext ==
    \/ \E c \in Conn : \E e \in InputMenu(c, first_message[c], me[c]) : Receive(c, e)
    \/ NextMessage

\* the relay server under short messages and flight plans with empty fields
InputSpec == Init /\ [][InputNext]_vars

\* --------------------------------------------------------------- squawk pool
\* config.rs: get_ccams_squawks, the ranges
ccams_ranges ==
    << << 201, 277 >>, << 301, 377 >>, << 470, 477 >>, << 501, 577 >>,
       << 730, 767 >>, << 1070, 1077 >>, << 1140, 1176 >>, << 1410, 1477 >>,
       << 2001, 2077 >>, << 2150, 2177 >>, << 2201, 2277 >>, << 2701, 2737 >>,
       << 3201, 3277 >>, << 3370, 3377 >>, << 3401, 3477 >>, << 3510, 3537 >>,
       << 4215, 4247 >>, << 4430, 4477 >>, << 4701, 4777 >>, << 5013, 5017 >>,
       << 5201, 5270 >>, << 5401, 5477 >>, << 5660, 5664 >>, << 5565, 5676 >>,
       << 6201, 6257 >>, << 6301, 6377 >>, << 6460, 6467 >>, << 6470, 6477 >>,
       << 7014, 7017 >>, << 7020, 7027 >>, << 7201, 7267 >>, << 7270, 7277 >>,
       << 7301, 7327 >>, << 7501, 7507 >>, << 7536, 7537 >>, << 7570, 7577 >>,
       << 7601, 7617 >>, << 7620, 7677 >>, << 7701, 7775 >>, << 1250, 1257 >>,
       << 6001, 6037 >> >>

\* start..=end
RangeInclusive(start, end) == [i \in 1..(end - start + 1) |-> start + i - 1]

\* config.rs: get_ccams_squawks, squawks.extend(start..=end) for the ranges
\* from position k on
RECURSIVE ExtendFrom(_, _)
ExtendFrom(ranges, k) ==
    IF k > Len(ranges) THEN << >>
    ELSE RangeInclusive(ranges[k][1], ranges[k][2]) \o ExtendFrom(ranges, k + 1)

\* config.rs: get_ccams_squawks
get_ccams_squawks == ExtendFrom(ccams_ranges, 1)

\* simulator.rs: assign_squawk, the squawks a call may return from the pool
\* and the pool it leaves: the last of the pool, or with an empty pool any
\* number of rng.gen_range(2000..7777). (The squawk is formatted with four
\* digits, which tells any two numbers below 10000 apart.)
assign_squawk(pool) ==
    IF pool # << >>
    THEN { [squawk |-> pool[Len(pool)], pool |-> SubSeq(pool, 1, Len(pool) - 1)] }
    ELSE { [squawk |-> n, pool |-> pool] : n \in 2000..7776 }

PoolInit ==
    /\ RelayInit
    /\ FrameIdle
    /\ OrderIdle
    /\ AircraftIdle
    /\ simulator = [new_simulator EXCEPT !.squawk_pool = get_ccams_squawks]
    /\ assigned = << >>

\* simulator.rs: spawn_departure, one more aircraft is given its squawk
AssignSquawk ==
    /\ Len(assigned) <= Len(get_ccams_squawks)
    /\ \E r \in assign_squawk(squawk_pool) :
          /\ assigned' = Append(assigned, r.squawk)
          /\ simulator' = [simulator EXCEPT !.squawk_pool = r.pool]
    /\ UNCHANGED << relayVars, frameVars, orderVars, aircraftVars >>

PoolNext == AssignSquawk

\* spawn after spawn from the pool of the simulator, no aircraft removed
PoolSpec == PoolInit /\ [][PoolNext]_vars

\* ---------------------------------------------------------------- simulator
\* The task of Simulator::run: tick after tick it checks the departure
\* timers, spawning where one is due, removes the aircraft whose route is
\* complete and updates the others.

\* the callsigns generate_callsign can draw (airline and flight number)
Callsigns == 1..NCallsigns

\* what the scenario and the fleet hold for the aerodrome of a timer: all
\* that a spawn needs, no route, no coordinates (get_airport_coords fails),
\* no active runway, or no airlines
AerodromeKinds == { "ok", "no_routes", "unknown_airport", "no_runway", "no_airlines" }

\* simulator.rs: create_departure_timers, interval_ticks of the scenarios:
\* a departure every two and every five seconds at the rate of 5 Hz
Intervals == { 10, 25 }

\* aircraft.rs: new_departure, the number of fixes of a route: none (the
\* route names no fix) or one
RouteLengths == { 0, 1 }

\* simulator.rs: create_departure_timers over the departure_configs of the
\* scenarios: two aerodromes, the first with a departure every two seconds, the
\* second, which has all a spawn needs, at either interval
departure_configs ==
    { << [aerodrome |-> k, interval |-> 10, last_spawn |-> 0],
         [aerodrome |-> "ok", interval |-> i, last_spawn |-> 0] >> :
        k \in AerodromeKinds, i \in Intervals }

\* simulator.rs: login_ai_controllers, the master controller and one other
\* controller of the scenario
login_ai_controllers == << "master", "other" >>

SimInit ==
    /\ RelayInit
    /\ FrameIdle
    /\ OrderIdle
    /\ AircraftIdle
    /\ assigned = << >>
    /\ \E timers \in departure_configs :
          simulator = [new_simulator EXCEPT !.squawk_pool = get_ccams_squawks,
                                            !.departure_timers = timers,
                                            !.ai_controllers = login_ai_controllers]

\* aircraft.rs: is_route_complete, complete only once the cursor is past the
\* length of the route
is_route_complete_past(a) == a.current_fix_index > a.route_len

\* aircraft.rs: is_route_complete
is_route_complete(a) == a.current_fix_index >= a.route_len

\* simulator.rs: generate_callsign, a drawn callsign is never kept
callsign_unique_never_used(callsign, used) == TRUE

\* simulator.rs: generate_callsign, !self.used_callsigns.contains(&callsign)
callsign_unique(callsign, used) == callsign \notin used

\* simulator.rs: run, update_interval.tick()
Tick ==
    /\ sim_pc = "tick"
    /\ run_result = "running"
    /\ loop_count < MaxTicks
    /\ simulator' = [simulator EXCEPT !.loop_count = loop_count + 1,
                                      !.timer_idx = 1,
                                      !.pc = "timers"]
    /\ UNCHANGED << poolVars, relayVars, frameVars, orderVars, aircraftVars >>

\* an error returned by spawn_departure goes through check_departure_spawns
\* and run with "?"
Failed(s, cause) == [s EXCEPT !.run_result = cause, !.pc = "returned"]

\* simulator.rs: check_departure_spawns, one turn of its loop over the timers
\* up to the loop of generate_callsign in spawn_departure
CheckTimer ==
    /\ sim_pc = "timers"
    /\ timer_idx <= Len(departure_timers)
    /\ LET t == departure_timers[timer_idx]
           spawned == [simulator EXCEPT
                          !.departure_timers[timer_idx].last_spawn = loop_count]
       IN  simulator' =
              IF loop_count - t.last_spawn >= t.interval
              THEN IF t.aerodrome = "no_routes"
                   THEN [spawned EXCEPT !.timer_idx = timer_idx + 1]
                   ELSE IF t.aerodrome = "ok"
                   THEN [spawned EXCEPT !.pc = "generate_callsign", !.attempts = 0]
                   ELSE Failed(spawned, t.aerodrome)
              ELSE [simulator EXCEPT !.timer_idx = timer_idx + 1]
    /\ UNCHANGED << poolVars, relayVars, frameVars, orderVars, aircraftVars >>

\* simulator.rs: spawn_departure from assign_squawk on, for the callsign
\* generated and a route with route_len fixes: the squawk r is taken, the
\* pilot session is opened (login_pilot) and sent the first position, the
\* callsign is marked used and the aircraft pushed; o tells whether
\* login_pilot or send_position fails
SpawnWith(s, callsign, route_len, o, r) ==
    LET popped == [s EXCEPT !.squawk_pool = r.pool]
        logged_in == [popped EXCEPT !.pilot_clients = @ \cup { callsign }]
    IN  IF o = "login"
        THEN Failed(popped, "login")
        ELSE IF o = "send_position"
        THEN Failed(logged_in, "send_position")
        ELSE [logged_in EXCEPT
                 !.used_callsigns = @ \cup { callsign },
                 !.aircraft = Append(@, [callsign |-> callsign, squawk |-> r.squawk,
                                         current_fix_index |-> 0,
                                         route_len |-> route_len,
                                         updated |-> FALSE]),
                 !.timer_idx = @ + 1,
                 !.pc = "timers"]

\* simulator.rs: generate_callsign, one turn of its loop: a callsign is drawn
\* and, when it is not in use, returned to spawn_departure, which goes on;
\* attempts counts the turns of the loop that have rejected their draw
Draw(callsign) ==
    /\ sim_pc = "generate_callsign"
    /\ attempts < CallsignAttempts
    /\ IF callsign_unique(callsign, used_callsigns)
       THEN \E route_len \in RouteLengths :
               \E o \in { "ok", "login", "send_position" } :
                  \E r \in assign_squawk(squawk_pool) :
                     simulator' = SpawnWith([simulator EXCEPT !.attempts = 0],
                                            callsign, route_len, o, r)
       ELSE simulator' = [simulator EXCEPT !.attempts = attempts + 1]
    /\ UNCHANGED << poolVars, relayVars, frameVars, orderVars, aircraftVars >>

\* simulator.rs: generate_callsign, no unique callsign after its attempts
GenerateFailed ==
    /\ sim_pc = "generate_callsign"
    /\ attempts >= CallsignAttempts
    /\ simulator' = Failed([simulator EXCEPT !.attempts = 0], "callsign")
    /\ UNCHANGED << poolVars, relayVars, frameVars, orderVars, aircraftVars >>

\* aircraft.rs: update, what a tick can make of an aircraft: the cursor of
\* its route stays or moves on by one fix; updated records that update has
\* run for the aircraft
Updated(a) ==
    LET u == [a EXCEPT !.updated = TRUE]
    IN  { u } \cup (IF a.current_fix_index < a.route_len
                    THEN { [u EXCEPT !.current_fix_index = a.current_fix_index + 1] }
                    ELSE { })

\* the sequences that hold, position by position, one of Updated
UpdatedAll(list) ==
    { l \in [1..Len(list) -> UNION { Updated(list[i]) : i \in 1..Len(list) }] :
        \A i \in 1..Len(list) : l[i] \in Updated(list[i]) }

\* simulator.rs: update_aircraft, the callsigns left in used_callsigns
used_after_removal(used, removed) == used \ removed

\* simulator.rs: run, the rest of a tick after the departure timers:
\* check_transit_spawns (which spawns nothing), update_aircraft, and every 25
\* ticks broadcast_pilot_positions, which forgets the sessions it cannot write to
EndTick ==
    /\ sim_pc = "timers"
    /\ timer_idx > Len(departure_timers)
    /\ LET removed_callsigns ==
               { aircraft[i].callsign :
                   i \in { j \in 1..Len(aircraft) : is_route_complete(aircraft[j]) } }
           retained == SelectSeq(aircraft, LAMBDA a : ~is_route_complete(a))
           can_disconnect ==
               IF loop_count % PositionEvery = 0
               THEN { retained[i].callsign : i \in 1..Len(retained) } \cap pilot_clients
               ELSE { }
       IN  \E updated \in UpdatedAll(retained) :
              \E lost \in SUBSET can_disconnect :
                 simulator' =
                    [simulator EXCEPT
                        !.used_callsigns = used_after_removal(@, removed_callsigns),
                        !.aircraft = updated,
                        !.pilot_clients = @ \ lost,
                        !.pc = "tick",
                        !.timer_idx = 0]
    /\ UNCHANGED << poolVars, relayVars, frameVars, orderVars, aircraftVars >>

\* simulator.rs: run, shutdown_rx.recv()
Shutdown ==
    /\ sim_pc = "tick"
    /\ run_result = "running"
    /\ shutdown
    /\ simulator' = [simulator EXCEPT !.run_result = "shutdown", !.pc = "returned"]
    /\ UNCHANGED << poolVars, relayVars, frameVars, orderVars, aircraftVars >>

\* a shutdown signal is sent on the channel that run listens to, at any
\* point of a tick or between two ticks
RaiseShutdown ==
    /\ run_result = "running"
    /\ ~shutdown
    /\ simulator' = [simulator EXCEPT !.shutdown = TRUE]
    /\ UNCHANGED << poolVars, relayVars, frameVars, orderVars, aircraftVars >>

\* simulator.rs: stop with every disconnect returning Ok
stop_ok(s) ==
    [s EXCEPT !.disconnected = [ pilots |-> @.pilots \cup s.pilot_clients,
                                 controllers |-> @.controllers \cup Range(s.ai_controllers) ],
              !.pilot_clients = { },
              !.ai_controllers = << >>,
              !.stop_result = "Ok",
              !.pc = "stopped"]

\* simulator.rs: stop when the disconnect of the pilot failing returns Err,
\* after the pilots of before have been drained and disconnected: "?"
\* returns, the drain drops the pilots left, the controllers are not visited
stop_err(s, failing, before) ==
    [s EXCEPT !.disconnected.pilots = @ \cup before,
              !.pilot_clients = { },
              !.stop_result = "Err",
              !.pc = "stopped"]

\* main.rs: stop is called on the simulator that run has returned
Stop ==
    /\ sim_pc = "returned"
    /\ \/ simulator' = stop_ok(simulator)
       \/ \E failing \in pilot_clients :
              \E before \in SUBSET (pilot_clients \ { failing }) :
                  simulator' = stop_err(simulator, failing, before)
    /\ UNCHANGED << poolVars, relayVars, frameVars, orderVars, aircraftVars >>

SimNext ==
    \/ Tick
    \/ CheckTimer
    \/ \E callsign \in Callsigns : Draw(callsign)
    \/ GenerateFailed
    \/ EndTick
    \/ Shutdown
    \/ RaiseShutdown
    \/ Stop

\* the simulator with its scenario
SimSpec == SimInit /\ [][SimNext]_vars

\* ----------------------------------------------------------------- aircraft
\* One departure under Aircraft::update, tick after tick. Times are in
\* milliseconds; the position of the aircraft is left out, and with it
\* whether a fix is in the database and within half a mile.

\* simulator.rs: run, radar_update_ms of the default radar_update_rate (5 Hz)
radar_update_ms == 200

\* simulator.rs: run, the time between two ticks of the interval: its
\* period, less when it catches up, more when a tick was late; the first is
\* the time from Aircraft::new_departure to the update of the spawn's tick
Gaps == { 100, 200, 1100 }

\* simulator.rs: get_cruise_altitude, the flight level of the route ("FL1")
\* or the default; "FL0" and "FL1" file a cruise below and above the 50 ft of
\* the rotation
CruiseAltitudes == { 0, 1, 360 }

\* aircraft.rs: extract_sid_altitude, the default restriction
sid_altitude == 6000

\* the cruise speed of the flight plan
cruise_speed == 450

\* aircraft.rs: new_departure
new_departure(route_len, cruise_altitude) ==
    [ phase |-> "OnGround", altitude |-> 0, ground_speed |-> 0,
      current_fix_index |-> 0, route_len |-> route_len,
      cruise_altitude |-> cruise_altitude, target_altitude |-> sid_altitude,
      target_speed |-> 250, elapsed |-> 0 ]

AircraftInit ==
    /\ RelayInit
    /\ FrameIdle
    /\ OrderIdle
    /\ PoolIdle
    /\ SimIdle
    /\ \E route_len \in 0..MaxFixes : \E cruise_altitude \in CruiseAltitudes :
          flight = new_departure(route_len, cruise_altitude)

\* Duration::as_secs: the whole seconds of a time in milliseconds
as_secs(ms) == ms \div 1000

\* aircraft.rs: update, the wait on the ground is over from the sixth second
ground_wait_over_late(elapsed) == as_secs(elapsed) > 5

\* aircraft.rs: update, spawn_time.elapsed().as_secs() >= 5
ground_wait_over(elapsed) == as_secs(elapsed) >= 5

\* (rate * delta_time) as u32 at a radar update rate of 10 Hz
PerTick_10hz(rate) == (rate * 100) \div 1000

\* (rate * delta_time) as u32, for a rate per second
PerTick(rate) == (rate * radar_update_ms) \div 1000

\* ((climb_rate_fpm / 60.0) * delta_time) as i32
ClimbPerTick(fpm) == (fpm * radar_update_ms) \div 60000

\* aircraft.rs: navigate_to_next_fix, the cursor skips a fix
next_fix_index_skip(a, in_db, near) ==
    IF a.current_fix_index >= a.route_len
    THEN a.current_fix_index
    ELSE IF in_db /\ near
    THEN a.current_fix_index + 2
    ELSE a.current_fix_index

\* aircraft.rs: navigate_to_next_fix, the cursor after the call: in_db tells
\* whether the current fix is in the database, near whether the aircraft is
\* within half a mile of it
next_fix_index(a, in_db, near) ==
    IF a.current_fix_index >= a.route_len
    THEN a.current_fix_index
    ELSE IF in_db /\ near
    THEN a.current_fix_index + 1
    ELSE a.current_fix_index

\* aircraft.rs: navigate_to_next_fix
navigate_to_next_fix(a, in_db, near) ==
    [a EXCEPT !.current_fix_index = next_fix_index(a, in_db, near)]

\* aircraft.rs: update, FlightPhase::OnGround
OnGround(a) ==
    IF ground_wait_over(a.elapsed)
    THEN [a EXCEPT !.phase = "Departing", !.ground_speed = 10]
    ELSE a

\* aircraft.rs: update, FlightPhase::Departing, with the rotation leading
\* straight to Cruise
Departing_to_cruise(a) ==
    IF a.ground_speed < 150
    THEN [a EXCEPT !.ground_speed = a.ground_speed + PerTick(50)]
    ELSE [a EXCEPT !.phase = "Cruise", !.altitude = 50, !.target_speed = 250]

\* aircraft.rs: update, FlightPhase::Departing
Departing(a) ==
    IF a.ground_speed < 150
    THEN [a EXCEPT !.ground_speed = a.ground_speed + PerTick(50)]
    ELSE [a EXCEPT !.phase = "Climbing", !.altitude = 50, !.target_speed = 250]

\* aircraft.rs: update, FlightPhase::Climbing, entering Cruise at the altitude
\* the climb has reached
Climbing_unclamped(a, in_db, near) ==
    LET climb_rate_fpm ==
            IF a.altitude < 10000 THEN 2000
            ELSE IF a.altitude < 20000 THEN 1800 ELSE 1500
        a1 == [a EXCEPT !.altitude = a.altitude + ClimbPerTick(climb_rate_fpm)]
        a2 == IF a1.ground_speed < a1.target_speed
              THEN [a1 EXCEPT !.ground_speed = a1.ground_speed + PerTick(10)]
              ELSE a1
        a5 == navigate_to_next_fix(a2, in_db, near)
    IN  IF a5.altitude >= a5.cruise_altitude * 100
        THEN [a5 EXCEPT !.phase = "Cruise", !.target_speed = cruise_speed]
        ELSE a5

\* aircraft.rs: update, FlightPhase::Climbing
Climbing(a, in_db, near) ==
    LET climb_rate_fpm ==
            IF a.altitude < 10000 THEN 2000
            ELSE IF a.altitude < 20000 THEN 1800 ELSE 1500
        a1 == [a EXCEPT !.altitude = a.altitude + ClimbPerTick(climb_rate_fpm)]
        a2 == IF a1.ground_speed < a1.target_speed
              THEN [a1 EXCEPT !.ground_speed = a1.ground_speed + PerTick(10)]
              ELSE a1
        a3 == IF a2.altitude >= a2.target_altitude
                 /\ a2.target_altitude < a2.cruise_altitude * 100
              THEN [a2 EXCEPT !.target_altitude = a2.cruise_altitude * 100,
                              !.target_speed = 250]
              ELSE a2
        a4 == IF a3.altitude > 10000 /\ a3.target_speed < 300
              THEN [a3 EXCEPT !.target_speed = 300]
              ELSE a3
        a5 == navigate_to_next_fix(a4, in_db, near)
    IN  IF a5.altitude >= a5.cruise_altitude * 100
        THEN [a5 EXCEPT !.altitude = a5.cruise_altitude * 100,
                        !.phase = "Cruise", !.target_speed = cruise_speed]
        ELSE a5

\* aircraft.rs: update, FlightPhase::Cruise
Cruise(a, in_db, near) ==
    LET a1 == navigate_to_next_fix(a, in_db, near)
    IN  IF a1.ground_speed < a1.target_speed
        THEN [a1 EXCEPT !.ground_speed = a1.ground_speed + PerTick(5)]
        ELSE a1

\* aircraft.rs: update
update(a, in_db, near) ==
    IF a.phase = "OnGround" THEN OnGround(a)
    ELSE IF a.phase = "Departing" THEN Departing(a)
    ELSE IF a.phase = "Climbing" THEN Climbing(a, in_db, near)
    ELSE IF a.phase = "Cruise" THEN Cruise(a, in_db, near)
    ELSE a

\* simulator.rs: update_aircraft, one tick for an aircraft it retains: gap is
\* the time since the tick before
Update(gap, in_db, near) ==
    /\ flight # << >>
    /\ flight.elapsed < MaxElapsed
    /\ ~is_route_complete(flight)
    /\ flight' = update([flight EXCEPT !.elapsed = flight.elapsed + gap], in_db, near)
    /\ UNCHANGED << relayVars, frameVars, orderVars, poolVars, simVars >>

\* simulator.rs: update_aircraft, the aircraft is removed with its route complete
RemoveCompleted ==
    /\ flight # << >>
    /\ is_route_complete(flight)
    /\ flight' = << >>
    /\ UNCHANGED << relayVars, frameVars, orderVars, poolVars, simVars >>

AircraftNext ==
    \/ \E gap \in Gaps : \E in_db, near \in BOOLEAN : Update(gap, in_db, near)
    \/ RemoveCompleted

\* one departure from its spawn to its removal
AircraftSpec == AircraftInit /\ [][AircraftNext]_vars

\* --------------------------------------------------------------------- turn
\* Aircraft::turn_towards, called again and again with the same target.

\* the headings an aircraft starts from: headings of the compass, the 360 of
\* runway 36 (simulator.rs: parse_runway_heading), and headings out of range
Headings ==
    { 0, 1, 2, 45, 90, 135, 179, 180, 181, 270, 358, 359, 360, 1000, -100, -1000 }

\* utils/navigation.rs: heading_from_to, a bearing in 0..359
Targets == { 0, 90, 359 }

\* turn_rate * delta_time in tenths of a degree: the 3 degrees per second of
\* the default configuration at 5 Hz, and faster turns
TurnTenths == { 6, 10, 25, 30 }

\* the remainder of Rust's %, which has the sign of the dividend
RustRem(a, b) ==
    IF a >= 0 \/ a % b = 0 THEN a % b ELSE (a % b) - b

Abs(x) == IF x < 0 THEN -x ELSE x

Min(a, b) == IF a <= b THEN a ELSE b

\* (turn_rate * delta_time).max(1.0) as i32
turn_amount(tenths) == (IF tenths < 10 THEN 10 ELSE tenths) \div 10

\* aircraft.rs: turn_towards, the heading is not brought back into range
normalized_never(heading) == heading

\* aircraft.rs: turn_towards, (self.heading + 360) % 360
normalized(heading) == RustRem(heading + 360, 360)

\* aircraft.rs: turn_towards, the heading after the call
turn_towards(heading, target, tenths) ==
    LET diff == RustRem(target - heading + 540, 360) - 180
    IN  IF Abs(diff) < 2
        THEN target
        ELSE IF diff > 0
        THEN normalized(heading + Min(turn_amount(tenths), diff))
        ELSE normalized(heading - Min(turn_amount(tenths), Abs(diff)))

TurnInit ==
    /\ RelayInit
    /\ FrameIdle
    /\ OrderIdle
    /\ PoolIdle
    /\ SimIdle
    /\ \E heading \in Headings : \E target \in Targets : \E tenths \in TurnTenths :
          flight = [ heading |-> heading, target |-> target, tenths |-> tenths,
                     start |-> heading, steps |-> 0 ]

\* aircraft.rs: navigate_to_next_fix, one more call of turn_towards
Turn ==
    /\ flight.steps < MaxTurns
    /\ flight' = [flight EXCEPT
                     !.heading = turn_towards(flight.heading, flight.target, flight.tenths),
                     !.steps = flight.steps + 1]
    /\ UNCHANGED << relayVars, frameVars, orderVars, poolVars, simVars >>

TurnNext == Turn

\* an aircraft turning to a target
TurnSpec == TurnInit /\ [][TurnNext]_vars


\* ---------------------------------------------------------------------
\* Route resolution: the text of a filed route becomes a list of waypoint
\* names. Two pieces of code do it: Aircraft::new_departure (parse_route
\* and extract_sid_waypoints), which the simulator uses, and Route
\* (initialize_fixes_from_route, expand_sid, expand_star), which the
\* older runner and the route tests use.
\* ---------------------------------------------------------------------

\* the most tokens of a sampled route
MaxTokens == 3

UpperCase == << "A", "B", "C", "D", "E", "F", "G", "H", "I", "J", "K", "L", "M", "N", "O", "P", "Q", "R", "S", "T", "U", "V", "W", "X", "Y", "Z" >>
LowerCase == << "a", "b", "c", "d", "e", "f", "g", "h", "i", "j", "k", "l", "m", "n", "o", "p", "q", "r", "s", "t", "u", "v", "w", "x", "y", "z" >>
Numeric == << "0", "1", "2", "3", "4", "5", "6", "7", "8", "9" >>

\* char::is_uppercase, char::is_alphabetic, char::is_numeric
is_uppercase(c) == c \in Range(UpperCase)
is_alphabetic(c) == c \in Range(UpperCase) \cup Range(LowerCase)
is_numeric(c) == c \in Range(Numeric)

\* str::to_uppercase
to_uppercase(s) ==
    [ i \in 1..Len(s) |->
        IF s[i] \in Range(LowerCase)
        THEN UpperCase[CHOOSE k \in 1..Len(LowerCase) : LowerCase[k] = s[i]]
        ELSE s[i] ]

\* str::find(char): the position of the first occurrence, 0 for None
find(s, c) ==
    IF \E i \in 1..Len(s) : s[i] = c
    THEN CHOOSE i \in 1..Len(s) : s[i] = c /\ \A j \in 1..(i - 1) : s[j] # c
    ELSE 0

SPACE == << " " >>
SLASH == << "/" >>

\* str::split_whitespace: the non-empty pieces between the blanks
split_whitespace(s) == SelectSeq(Split(s, SPACE), LAMBDA p : Len(p) > 0)

\* the tokens a sampled route is made of: a SID with its runway, fixes of
\* three, five and six letters, airways, DCT and a STAR with its runway
Vocabulary ==
    { << "B", "P", "K", "5", "K", "/", "0", "9", "L" >>, << "D", "V", "R" >>, << "U", "L", "9" >>, << "K", "O", "N", "A", "N" >>, << "D", "C", "T" >>, << "B", "P", "K" >>, << "L", "O", "N", "D", "O", "N" >>,
      << "A", "L", "E", "S", "O", "1", "H", "/", "2", "7", "R" >> }

RECURSIVE RoutesOf(_)
RoutesOf(n) ==
    IF n = 0 THEN { << >> }
    ELSE { << t >> \o r : t \in Vocabulary, r \in RoutesOf(n - 1) }

\* the routes of the route tests, a fix with a level and speed restriction
\* and a route filed in lower case
FiledRoutes ==
    { << "B", "P", "K", "5", "K", "/", "0", "9", "L", " ", "D", "V", "R", " ", "U", "L", "9", " ", "K", "O", "N", "A", "N" >>, << "K", "O", "N", "A", "N", " ", "U", "L", "9", " ", "D", "V", "R", " ", "A", "L", "E", "S", "O", "1", "H", "/", "2", "7", "R" >>,
      << "B", "P", "K", "5", "K", "/", "0", "9", "L", " ", "D", "V", "R", " ", "U", "L", "9", " ", "K", "O", "N", "A", "N", " ", "A", "L", "E", "S", "O", "1", "H", "/", "2", "7", "R" >>, << "D", "V", "R", " ", "U", "L", "9", " ", "K", "O", "N", "A", "N", " ", "U", "L", "6", "0", "7", " ", "T", "A", "L", "L", "A" >>,
      << "P", "O", "L", "/", "N", "0", "2", "7", "2", "F", "1", "8", "0", " ", "D", "V", "R" >>, << "d", "v", "r", " ", "k", "o", "n", "a", "n" >> }

Routes ==
    { Join(r, SPACE) : r \in UNION { RoutesOf(n) : n \in 1..MaxTokens } }
        \cup FiledRoutes

\* data/Airports/EGLL/Sids.txt and Stars.txt, line by line; a file that is
\* missing, and one that cannot be read
EgllSids ==
    [ state |-> "read",
      lines |-> << << ";", "S", "I", "D", "s" >>, << >>,
                   << "S", "I", "D", ":", "E", "G", "L", "L", ":", "0", "9", "L", ":", "B", "P", "K", "5", "K", ":", "R", "W", "2", "7", "R", " ", "D", "1", "1", "0", "B", " ", "D", "0", "7", "0", "J", " ", "D", "1", "9", "6", "J", " ", "D", "1", "9", "6", "F", " ", "B", "A", "P", "A", "G", " ", "B", "P", "K" >>,
                   << "S", "I", "D", ":", "E", "G", "L", "L", ":", "2", "7", "R", ":", "D", "E", "T", "2", "F", ":", "D", "2", "5", "3", "F", " ", "D", "E", "T" >> >> ]
EgllStars ==
    [ state |-> "read",
      lines |-> << << "S", "T", "A", "R", ":", "E", "G", "L", "L", ":", "2", "7", "R", ":", "A", "L", "E", "S", "O", "1", "H", ":", "A", "L", "E", "S", "O", " ", "R", "O", "T", "N", "O", " ", "E", "T", "V", "A", "X", " ", "T", "I", "G", "E", "R", " ", "L", "L", "E", "0", "1", " ", "B", "I", "G", " ", "C", "F", "2", "7", "R", " ", "F", "I", "2", "7", "R", " ", "R", "W", "2", "7", "R" >> >> ]
Missing == [ state |-> "missing", lines |-> << >> ]
Unreadable == [ state |-> "unreadable", lines |-> << >> ]
SidFiles == { EgllSids, Missing, Unreadable }
ActiveRunways == { << "0", "9", "L" >>, << "2", "7", "R" >> }

\* one line of a procedure file: SID:ICAO:RUNWAY:NAME:FIXES, None for a
\* blank line, a comment and a line of another shape
procedure_line(line, kind) ==
    LET parts == Split(line, COLON)
    IN  IF Len(line) = 0 \/ StartsWith(line, << ";" >>) THEN << >>
        ELSE IF Len(parts) >= 5 /\ parts[1] = kind
        THEN << [ runway |-> parts[3], name |-> parts[4], fixes |-> parts[5] ] >>
        ELSE << >>

\* load_sids, load_stars: the entries of the file in the order of its
\* lines; a missing file gives the empty table
RECURSIVE load_lines(_, _)
load_lines(lines, kind) ==
    IF Len(lines) = 0 THEN << >>
    ELSE procedure_line(Head(lines), kind) \o load_lines(Tail(lines), kind)

\* HashMap::get on the table of load_lines: insert replaces, so the last
\* entry of a name and runway is the one found; << >> for None
get(table, name, runway) ==
    LET hits == SelectSeq(table, LAMBDA e : e.name = name /\ e.runway = runway)
    IN  IF Len(hits) = 0 THEN << >> ELSE << hits[Len(hits)].fixes >>

\* ---- Route ----

\* the placeholder that should add the fixes of an airway between two fixes
expand_airway(fixes, from_fix, to_fix, airway) == fixes

looks_like_airway(s) ==
    /\ Len(s) > 0
    /\ s[1] \in { "U", "L", "M", "N", "P", "Q", "R", "T", "Y", "Z" }
    /\ Len(s) >= 2

\* the test of one token in initialize_fixes_from_route
is_fix(fix) ==
    /\ \A i \in 1..Len(fix) : is_uppercase(fix[i])
    /\ Len(fix) >= 3
    /\ Len(fix) <= 5

\* the loop of initialize_fixes_from_route over the tokens left, with the
\* fixes so far and the two locals prev_wpt and prev_route (<< >> for None)
RECURSIVE fixes_from(_, _, _, _)
fixes_from(tokens, fixes, prev_wpt, prev_route) ==
    IF Len(tokens) = 0 THEN fixes
    ELSE LET slash == find(Head(tokens), "/")
             fix == IF slash > 0 THEN SubSeq(Head(tokens), 1, slash - 1)
                    ELSE Head(tokens)
         IN  IF is_fix(fix)
             THEN LET expanded ==
                          IF Len(prev_wpt) > 0 /\ Len(prev_route) > 0
                          THEN expand_airway(fixes, prev_wpt[1], fix, prev_route[1])
                          ELSE fixes
                  IN  fixes_from(Tail(tokens), Append(expanded, fix),
                                 << fix >>,
                                 IF Len(prev_wpt) > 0 /\ Len(prev_route) > 0
                                 THEN << >> ELSE prev_route)
             ELSE fixes_from(Tail(tokens), fixes, prev_wpt,
                             IF looks_like_airway(fix) THEN << fix >> ELSE << >>)

initialize_fixes_from_route(route_string) ==
    fixes_from(split_whitespace(route_string), << >>, << >>, << >>)

\* Route::expand_sid on the fixes of a Route, with the Sids.txt of dep_ad
expand_sid(fixes, sids) ==
    IF Len(fixes) = 0 THEN [ fixes |-> fixes, result |-> "Ok" ]
    ELSE LET first_item == fixes[1]
             slash_idx == find(first_item, "/")
             sid_name == SubSeq(first_item, 1, slash_idx - 1)
             runway == SubSeq(first_item, slash_idx + 1, Len(first_item))
             found == IF sids.state = "unreadable" THEN << >>
                      ELSE get(load_lines(sids.lines, << "S", "I", "D" >>), sid_name, runway)
         IN  IF slash_idx = 0 THEN [ fixes |-> fixes, result |-> "Ok" ]
             ELSE IF Len(found) > 0
             THEN [ fixes |-> split_whitespace(found[1]) \o Tail(fixes),
                    result |-> "Ok" ]
             ELSE [ fixes |-> fixes, result |-> "Err" ]

\* Route::expand_star, with the Stars.txt of arr_ad
expand_star(fixes, stars) ==
    IF Len(fixes) = 0 THEN [ fixes |-> fixes, result |-> "Ok" ]
    ELSE LET last_item == fixes[Len(fixes)]
             slash_idx == find(last_item, "/")
             star_name == SubSeq(last_item, 1, slash_idx - 1)
             runway == SubSeq(last_item, slash_idx + 1, Len(last_item))
             found == IF stars.state = "unreadable" THEN << >>
                      ELSE get(load_lines(stars.lines, << "S", "T", "A", "R" >>), star_name, runway)
         IN  IF slash_idx = 0 THEN [ fixes |-> fixes, result |-> "Ok" ]
             ELSE IF Len(found) > 0
             THEN [ fixes |-> SubSeq(fixes, 1, Len(fixes) - 1)
                                  \o split_whitespace(found[1]),
                    result |-> "Ok" ]
             ELSE [ fixes |-> fixes, result |-> "Err" ]

\* ---- Aircraft ----

\* the airway test of parse_route: two to five characters, a letter first,
\* at most two letters in front and a digit somewhere
RECURSIVE leading_letters(_)
leading_letters(part) ==
    IF Len(part) = 0 \/ ~is_alphabetic(Head(part)) THEN 0
    ELSE 1 + leading_letters(Tail(part))

mostly_letters_then_numbers(part) ==
    /\ Len(part) >= 2
    /\ Len(part) <= 5
    /\ is_alphabetic(part[1])
    /\ leading_letters(part) <= 2
    /\ \E i \in 1..Len(part) : is_numeric(part[i])

\* the loop of parse_route over the tokens left
RECURSIVE parse_parts(_)
parse_parts(parts) ==
    IF Len(parts) = 0 THEN << >>
    ELSE LET part == Head(parts)
             others == parse_parts(Tail(parts))
         IN  IF Contains(part, SLASH) THEN others
             ELSE IF mostly_letters_then_numbers(part) THEN others
             ELSE IF part = << "D", "C", "T" >> THEN others
             ELSE IF /\ Len(part) >= 3
                     /\ Len(part) <= 6
                     /\ \A i \in 1..Len(part) : is_alphabetic(part[i])
             THEN << to_uppercase(part) >> \o others
             ELSE others

parse_route(route) == parse_parts(split_whitespace(route))

\* sid_lines without the test of the runway
RECURSIVE sid_lines_any_runway(_, _, _)
sid_lines_any_runway(lines, sid_name, runway) ==
    IF Len(lines) = 0 THEN << >>
    ELSE LET e == procedure_line(Head(lines), << "S", "I", "D" >>)
         IN  IF Len(e) > 0 /\ e[1].name = sid_name
             THEN LET words == split_whitespace(e[1].fixes)
                  IN  [ i \in 1..Len(words) |-> to_uppercase(words[i]) ]
             ELSE sid_lines_any_runway(Tail(lines), sid_name, runway)

\* the lines of Sids.txt from the top: the fixes of the first line whose
\* name and runway match
RECURSIVE sid_lines(_, _, _)
sid_lines(lines, sid_name, runway) ==
    IF Len(lines) = 0 THEN << >>
    ELSE LET e == procedure_line(Head(lines), << "S", "I", "D" >>)
         IN  IF Len(e) > 0 /\ e[1].name = sid_name /\ e[1].runway = runway
             THEN LET words == split_whitespace(e[1].fixes)
                  IN  [ i \in 1..Len(words) |-> to_uppercase(words[i]) ]
             ELSE sid_lines(Tail(lines), sid_name, runway)

extract_sid_waypoints(sids, route, runway) ==
    LET tokens == split_whitespace(route)
    IN  IF Len(tokens) = 0 THEN << >>
        ELSE IF ~Contains(tokens[1], SLASH) THEN << >>
        ELSE IF sids.state # "read" THEN << >>
        ELSE sid_lines(sids.lines, Split(tokens[1], SLASH)[1], runway)

\* the loop of new_departure that adds the enroute fixes after the SID's
RECURSIVE merge_fixes(_, _)
merge_fixes(route_fixes, enroute_fixes) ==
    IF Len(enroute_fixes) = 0 THEN route_fixes
    ELSE merge_fixes(
             IF Len(route_fixes) = 0
                \/ route_fixes[Len(route_fixes)] # Head(enroute_fixes)
             THEN Append(route_fixes, Head(enroute_fixes))
             ELSE route_fixes,
             Tail(enroute_fixes))

route_fixes_of(sids, route, runway) ==
    merge_fixes(extract_sid_waypoints(sids, route, runway), parse_route(route))

\* ---- the specification ----

RouteInit ==
    /\ RelayInit
    /\ FrameIdle
    /\ OrderIdle
    /\ PoolIdle
    /\ SimIdle
    /\ \E route \in Routes, runway \in ActiveRunways, sids \in SidFiles :
           flight = [ route |-> route, runway |-> runway, sids |-> sids,
                      stars |-> EgllStars, by |-> "filed", fixes |-> << >>,
                      result |-> "Ok" ]

\* Aircraft::new_departure resolves the route with the active runway
NewDeparture ==
    /\ flight.by = "filed"
    /\ flight' = [ flight EXCEPT
                     !.by = "Aircraft",
                     !.fixes = route_fixes_of(flight.sids, flight.route,
                                              flight.runway) ]
    /\ UNCHANGED << relayVars, frameVars, orderVars, poolVars, simVars >>

\* Route::new, then expand_sid and expand_star as the runner calls them
RouteNew ==
    /\ flight.by = "filed"
    /\ LET sid == expand_sid(initialize_fixes_from_route(flight.route),
                             flight.sids)
           star == expand_star(sid.fixes, flight.stars)
       IN  flight' = [ flight EXCEPT
                         !.by = "Route",
                         !.fixes = star.fixes,
                         !.result = IF sid.result = "Err" THEN "Err"
                                    ELSE star.result ]
    /\ UNCHANGED << relayVars, frameVars, orderVars, poolVars, simVars >>

RouteNext == NewDeparture \/ RouteNew

RouteSpec == RouteInit /\ [][RouteNext]_vars

\* ---------------------------------------------------------------------
\* navigation.rs: normalize_heading on 32-bit integers
\* ---------------------------------------------------------------------

\* the headings sampled around zero reach from -MaxHeading to MaxHeading
MaxHeading == 725

\* the limits of i32, and how far from them headings are sampled
I32Max == 2147483647
I32Min == -I32Max - 1
NearLimit == 30

\* normalize_heading without the addition of 360
normalize_heading_rem(heading) == RustRem(heading, 360)

\* normalize_heading: ((heading % 360) + 360) % 360, with the % of Rust; the
\* first remainder lies between -359 and 359, so the sum stays within i32
normalize_heading(heading) == RustRem(RustRem(heading, 360) + 360, 360)

NormHeadings ==
    (-MaxHeading..MaxHeading)
        \cup { I32Min + k : k \in 0..NearLimit }
        \cup { I32Max - k : k \in 0..NearLimit }

NormInit ==
    /\ RelayInit
    /\ FrameIdle
    /\ OrderIdle
    /\ PoolIdle
    /\ SimIdle
    /\ \E heading \in NormHeadings :
           flight = [ heading |-> heading, normalized |-> << >> ]

\* one call of normalize_heading
Normalize ==
    /\ flight.normalized = << >>
    /\ flight' = [ flight EXCEPT !.normalized = << normalize_heading(flight.heading) >> ]
    /\ UNCHANGED << relayVars, frameVars, orderVars, poolVars, simVars >>

NormNext == Normalize

NormSpec == NormInit /\ [][NormNext]_vars
\* ------------------------------------------------------------------- runway
\* The heading of a departure from its spawn on: Simulator::spawn_departure
\* takes it from the identifier of the active runway, turn_towards changes it.

\* scenario: active_runway, identifiers of runways and one without a number
Runways == { << "0", "1" >>, << "0", "9" >>, << "1", "8", "L" >>, << "2", "7", "R" >>, << "3", "6" >>, << "R", "W" >> }

\* the value of a decimal digit
digit_value(c) == CHOOSE k \in 0..9 : Numeric[k + 1] = c

\* str::parse::<i32> of a string of digits that is not empty
RECURSIVE parse_i32(_)
parse_i32(s) ==
    IF Len(s) = 1
    THEN digit_value(s[1])
    ELSE parse_i32(SubSeq(s, 1, Len(s) - 1)) * 10 + digit_value(s[Len(s)])

\* simulator.rs: parse_runway_heading, the heading is brought into 0..359
parse_runway_heading_wrapped(runway) ==
    LET numeric == SelectSeq(runway, is_numeric)
    IN  IF numeric # << >> THEN (parse_i32(numeric) * 10) % 360 ELSE 0

\* simulator.rs: parse_runway_heading
parse_runway_heading(runway) ==
    LET numeric == SelectSeq(runway, is_numeric)
    IN  IF numeric # << >> THEN parse_i32(numeric) * 10 ELSE 0

\* simulator.rs: spawn_departure and aircraft.rs: new_departure, the heading
\* of the new aircraft is the heading of the runway
HeadingInit ==
    /\ RelayInit
    /\ FrameIdle
    /\ OrderIdle
    /\ PoolIdle
    /\ SimIdle
    /\ \E runway \in Runways : \E target \in Targets : \E tenths \in TurnTenths :
          flight = [ heading |-> parse_runway_heading(runway), target |-> target,
                     tenths |-> tenths, start |-> parse_runway_heading(runway),
                     steps |-> 0 ]

\* a departure turning to its fix
HeadingSpec == HeadingInit /\ [][TurnNext]_vars

\* ------------------------------------------------------------------ transit
\* The transit timers of Simulator::run, tick after tick; the live aircraft
\* and the pilot sessions are those of the simulator, empty at the start.

\* simulator.rs: create_transit_timers over the transit_configs of the
\* scenario: one or two groups, spawning every two or five seconds at 5 Hz,
\* with or without a route to draw (random_transit_route)
transit_configs ==
    LET timer == [ interval : Intervals, last_spawn : { 0 }, routes : BOOLEAN ]
    IN  { << t >> : t \in timer } \cup { << t, u >> : t, u \in timer }

TransitInit ==
    /\ RelayInit
    /\ FrameIdle
    /\ OrderIdle
    /\ PoolIdle
    /\ SimIdle
    /\ \E timers \in transit_configs :
          flight = [ loop_count |-> 0, transit_timers |-> timers,
                     aircraft |-> << >>, pilot_clients |-> { } ]

\* simulator.rs: check_transit_spawns, the timer is due
transit_due(t, count) == count - t.last_spawn >= t.interval

\* simulator.rs: check_transit_spawns, the timers after the call: the route
\* drawn for a timer that is due is logged and nothing else
check_transit_spawns(timers, count) ==
    [ k \in 1..Len(timers) |->
        IF transit_due(timers[k], count)
        THEN [timers[k] EXCEPT !.last_spawn = count]
        ELSE timers[k] ]

\* simulator.rs: run, a tick of the loop as far as the transit timers go:
\* check_transit_spawns borrows the simulator immutably, aircraft and
\* pilot_clients are as before
TransitTick ==
    /\ flight.loop_count < MaxTicks
    /\ flight' = [flight EXCEPT
                     !.loop_count = flight.loop_count + 1,
                     !.transit_timers =
                         check_transit_spawns(flight.transit_timers,
                                              flight.loop_count + 1)]
    /\ UNCHANGED << relayVars, frameVars, orderVars, poolVars, simVars >>

TransitNext == TransitTick

\* the transit groups of a scenario under the loop of run
TransitSpec == TransitInit /\ [][TransitNext]_vars

\* -------------------------------------------------------------------- locks
\* The mutexes of server/fsd_server.rs, taken and dropped one at a time by
\* the handle_client tasks of three sessions. Every write returns, with Ok
\* or with an error. Each task has the list of the steps it has yet to take
\* for its message: taking a mutex waits until the mutex is free.

\* the sessions: two controller clients and a pilot client
LockControllers == { 1, 2 }

LockPilots == { 3 }

Sessions == LockControllers \cup LockPilots

\* FsdServer.controllers and FsdServer.pilots, Arc<Mutex<Vec<..>>>
controllers_lock == << "controllers", 0 >>

pilots_lock == << "pilots", 0 >>

\* Arc<Mutex<ControllerHandler>> or Arc<Mutex<PilotHandler>> of a session
handler_lock(x) == << "handler", x >>

\* Arc<Mutex<OwnedWriteHalf>> of a session
stream_lock(x) == << "stream", x >>

Locks ==
    { controllers_lock, pilots_lock }
        \cup { handler_lock(x) : x \in Sessions }
        \cup { stream_lock(x) : x \in Sessions }

collection_lock(t) == IF t \in LockControllers THEN controllers_lock ELSE pilots_lock

\* controller_handler.rs: send_message: the stream is locked for write_all;
\* op tells what an error of the write does
send_message(x, op) ==
    << << "lock", stream_lock(x), 0 >>, << op, stream_lock(x), 0 >>,
       << "unlock", stream_lock(x), 0 >> >>

\* fsd_server.rs: handle_client, handler.lock().await.handle(message); the
\* handler of a controller answers some messages with try_write on its stream
handle(t, answers) ==
    << << "lock", handler_lock(t), 0 >> >>
        \o (IF answers /\ t \in LockControllers
            THEN send_message(t, "write") ELSE << >>)
        \o << << "unlock", handler_lock(t), 0 >> >>

\* fsd_server.rs: handle_client, the first message: the handler is pushed to
\* its collection
register(t) ==
    << << "lock", collection_lock(t), 0 >>, << "push", collection_lock(t), 0 >>,
       << "unlock", collection_lock(t), 0 >> >>

\* fsd_server.rs: handle_client, sender_callsign, with the guard of the
\* handler kept for the call of forward_to_controllers
sender_callsign_guard_kept(t) ==
    IF t \in LockControllers
    THEN << << "lock", handler_lock(t), 0 >> >>
    ELSE << >>

\* fsd_server.rs: handle_client, sender_callsign: h.lock().await.callsign()
sender_callsign(t) ==
    IF t \in LockControllers
    THEN << << "lock", handler_lock(t), 0 >>, << "unlock", handler_lock(t), 0 >> >>
    ELSE << >>

\* fsd_server.rs: forward_to_controllers, the loop over the list from
\* position i on: each controller is locked and, unless excluded, written to
RECURSIVE forward_loop(_, _, _)
forward_loop(list, i, exclude) ==
    IF i > Len(list)
    THEN << >>
    ELSE << << "lock", handler_lock(list[i]), 0 >> >>
            \o (IF list[i] # exclude THEN send_message(list[i], "write") ELSE << >>)
            \o << << "unlock", handler_lock(list[i]), 0 >> >>
            \o forward_loop(list, i + 1, exclude)

\* fsd_server.rs: handle_flight_plan_query, the loop over the list from
\* position i on for the task t: each pilot is locked in turn; with the pilot
\* asked for locked, the flight plan and the squawk are sent to the
\* requesting controller, and the loop ends
RECURSIVE query_loop(_, _, _, _)
query_loop(list, i, plane, t) ==
    IF i > Len(list)
    THEN << >>
    ELSE IF list[i] # plane
    THEN << << "lock", handler_lock(list[i]), 0 >>,
            << "unlock", handler_lock(list[i]), 0 >> >>
            \o query_loop(list, i + 1, plane, t)
    ELSE << << "lock", handler_lock(list[i]), 0 >> >>
            \o (IF t \in LockControllers
                THEN << << "lock", handler_lock(t), 0 >> >>
                        \o send_message(t, "write_or_return")
                        \o << << "unlock", handler_lock(t), 0 >>,
                              << "lock", handler_lock(t), 0 >> >>
                        \o send_message(t, "write_or_return")
                        \o << << "unlock", handler_lock(t), 0 >> >>
                ELSE << >>)
            \o << << "unlock", handler_lock(list[i]), 0 >> >>

\* fsd_server.rs: handle_client, what follows handle for the status of the
\* message: nothing, forward_to_controllers without the sender or to all, or
\* handle_flight_plan_query for the plane
Tails ==
    { << "none", 0 >>, << "others", 0 >>, << "all", 0 >> }
        \cup { << "query", plane >> : plane \in LockPilots \cup { 0 } }

after_handle(t, tail) ==
    IF tail[1] = "others"
    THEN sender_callsign(t) \o << << "each_controller", controllers_lock, t >> >>
    ELSE IF tail[1] = "all"
    THEN << << "each_controller", controllers_lock, 0 >> >>
    ELSE IF tail[1] = "query"
    THEN << << "find_pilot", pilots_lock, tail[2] >> >>
    ELSE << >>

\* fsd_server.rs: handle_client, the cleanup after the loop
cleanup(t) ==
    << << "lock", collection_lock(t), 0 >>, << "retain", collection_lock(t), 0 >>,
       << "unlock", collection_lock(t), 0 >>, << "end", collection_lock(t), 0 >> >>

LockInit ==
    /\ RelayInit
    /\ FrameIdle
    /\ OrderIdle
    /\ PoolIdle
    /\ SimIdle
    /\ flight = [ todo |-> [t \in Sessions |-> << >>],
                  task |-> [t \in Sessions |-> "new"],
                  owner |-> [l \in Locks |-> 0],
                  controllers |-> << >>, pilots |-> << >> ]

LockUnchanged == UNCHANGED << relayVars, frameVars, orderVars, poolVars, simVars >>

\* the step the task t takes next
NextStep(t) == flight.todo[t][1]

Stepping(t, op) == flight.todo[t] # << >> /\ NextStep(t)[1] = op

\* fsd_server.rs: handle_client, a message is read: the first registers the
\* session, every message is handled and followed by what its status asks for
Begin(t, answers, tail) ==
    /\ flight.task[t] \in { "new", "open" }
    /\ flight.todo[t] = << >>
    /\ flight' = [flight EXCEPT
                     !.task[t] = "open",
                     !.todo[t] = (IF flight.task[t] = "new" THEN register(t) ELSE << >>)
                                     \o handle(t, answers) \o after_handle(t, tail)]
    /\ LockUnchanged

\* fsd_server.rs: handle_client, the read returns Ok(0) or an error
Eof(t) ==
    /\ flight.task[t] = "open"
    /\ flight.todo[t] = << >>
    /\ flight' = [flight EXCEPT !.todo[t] = cleanup(t)]
    /\ LockUnchanged

\* Mutex::lock().await returns: the mutex was free
Lock(t) ==
    /\ Stepping(t, "lock")
    /\ flight.owner[NextStep(t)[2]] = 0
    /\ flight' = [flight EXCEPT !.owner[NextStep(t)[2]] = t,
                                !.todo[t] = Tail(@)]
    /\ LockUnchanged

\* the guard of a mutex is dropped
Unlock(t) ==
    /\ Stepping(t, "unlock")
    /\ flight' = [flight EXCEPT !.owner[NextStep(t)[2]] = 0,
                                !.todo[t] = Tail(@)]
    /\ LockUnchanged

\* fsd_server.rs: handle_client, push(handler.clone())
Push(t) ==
    /\ Stepping(t, "push")
    /\ flight' = [flight EXCEPT
                     !.controllers = IF t \in LockControllers THEN Append(@, t) ELSE @,
                     !.pilots = IF t \in LockPilots THEN Append(@, t) ELSE @,
                     !.todo[t] = Tail(@)]
    /\ LockUnchanged

\* fsd_server.rs: handle_client, retain(|h| !Arc::ptr_eq(h, &handler))
Retain(t) ==
    /\ Stepping(t, "retain")
    /\ flight' = [flight EXCEPT
                     !.controllers = SelectSeq(@, LAMBDA x : x # t),
                     !.pilots = SelectSeq(@, LAMBDA x : x # t),
                     !.todo[t] = Tail(@)]
    /\ LockUnchanged

\* fsd_server.rs: forward_to_controllers, controllers.lock().await returns
\* and the loop runs over the list as it is now
EachController(t) ==
    /\ Stepping(t, "each_controller")
    /\ flight.owner[controllers_lock] = 0
    /\ flight' = [flight EXCEPT
                     !.owner[controllers_lock] = t,
                     !.todo[t] = forward_loop(flight.controllers, 1, NextStep(t)[3])
                                     \o << << "unlock", controllers_lock, 0 >> >>
                                     \o Tail(@)]
    /\ LockUnchanged

\* fsd_server.rs: handle_flight_plan_query, pilots.lock().await returns and
\* the loop runs over the list as it is now
QueryPilots(t) ==
    /\ Stepping(t, "find_pilot")
    /\ flight.owner[pilots_lock] = 0
    /\ flight' = [flight EXCEPT
                     !.owner[pilots_lock] = t,
                     !.todo[t] = query_loop(flight.pilots, 1, NextStep(t)[3], t)
                                     \o << << "unlock", pilots_lock, 0 >> >>
                                     \o Tail(@)]
    /\ LockUnchanged

\* write_all or try_write returns; an error is logged or ignored
Write(t) ==
    /\ Stepping(t, "write") \/ Stepping(t, "write_or_return")
    /\ flight' = [flight EXCEPT !.todo[t] = Tail(@)]
    /\ LockUnchanged

\* fsd_server.rs: handle_flight_plan_query, send_message(..).await?: the
\* error of the write returns from handle_client, every guard is dropped
WriteFails(t) ==
    /\ Stepping(t, "write_or_return")
    /\ flight' = [flight EXCEPT
                     !.owner = [l \in Locks |-> IF @[l] = t THEN 0 ELSE @[l]],
                     !.todo[t] = << >>,
                     !.task[t] = "ended"]
    /\ LockUnchanged

\* fsd_server.rs: handle_client returns Ok(())
End(t) ==
    /\ Stepping(t, "end")
    /\ flight' = [flight EXCEPT !.todo[t] = << >>, !.task[t] = "ended"]
    /\ LockUnchanged

LockNext ==
    \E t \in Sessions :
        \/ \E answers \in BOOLEAN : \E tail \in Tails : Begin(t, answers, tail)
        \/ Eof(t)
        \/ Lock(t)
        \/ Unlock(t)
        \/ Push(t)
        \/ Retain(t)
        \/ EachController(t)
        \/ QueryPilots(t)
        \/ Write(t)
        \/ WriteFails(t)
        \/ End(t)

\* the tasks of the relay, one mutex at a time
LockSpec == LockInit /\ [][LockNext]_vars

\* ----------------------------------------------------------------- registry
\* The relay of server/mod.rs: the handle_client tasks of the sessions and
\* the RwLock of each of the two lists of clients.

\* the list a session is kept in
ListOf(t) == IF t \in LockControllers THEN "controllers" ELSE "pilots"

RegistryInit ==
    /\ RelayInit
    /\ FrameIdle
    /\ OrderIdle
    /\ PoolIdle
    /\ SimIdle
    /\ flight = [ task |-> [t \in Sessions |-> "run"],
                  writer |-> [controllers |-> 0, pilots |-> 0],
                  readers |-> { },
                  controllers |-> << >>, pilots |-> << >>,
                  received |-> 0 ]

RegistryUnchanged == UNCHANGED << relayVars, frameVars, orderVars, poolVars, simVars >>

\* server/mod.rs: handle_client, run() has read the login of the client and
\* client_type() tells its role
Identify(t) ==
    /\ flight.task[t] = "run"
    /\ flight' = [flight EXCEPT !.task[t] = "register"]
    /\ RegistryUnchanged

\* server/mod.rs: handle_client, the client has sent no login: None
Unidentified(t) ==
    /\ flight.task[t] = "run"
    /\ flight' = [flight EXCEPT !.task[t] = "ended"]
    /\ RegistryUnchanged

\* server/mod.rs: handle_client, controllers.write().await (pilots for a
\* pilot) returns: the guard ctrl_list lives to the end of the match arm;
\* the client is pushed
RegisterClient(t) ==
    /\ flight.task[t] = "register"
    /\ flight.writer[ListOf(t)] = 0
    /\ ListOf(t) = "controllers" => flight.readers = { }
    /\ flight' = [flight EXCEPT
                     !.writer[ListOf(t)] = t,
                     !.controllers = IF t \in LockControllers THEN Append(@, t) ELSE @,
                     !.pilots = IF t \in LockPilots THEN Append(@, t) ELSE @,
                     !.task[t] = "loop"]
    /\ RegistryUnchanged

\* server/mod.rs: handle_client, a message is received and handled: the
\* forward_mode 1 of a controller and the forward_mode 2 of any client call
\* a broadcast
Message(t, forward_mode) ==
    /\ flight.task[t] = "loop"
    /\ flight.received < MaxReads
    /\ flight' = [flight EXCEPT
                     !.received = @ + 1,
                     !.task[t] = IF \/ forward_mode = 2
                                    \/ forward_mode = 1 /\ t \in LockControllers
                                 THEN "broadcast" ELSE "loop"]
    /\ RegistryUnchanged

\* server/mod.rs: broadcast_to_controllers and broadcast_to_all_controllers,
\* controllers.read().await returns: no task keeps the write guard
ReadRegistry(t) ==
    /\ flight.task[t] = "broadcast"
    /\ flight.writer.controllers = 0
    /\ flight' = [flight EXCEPT !.readers = @ \cup { t }, !.task[t] = "sending"]
    /\ RegistryUnchanged

\* server/mod.rs: the loop of the broadcast is over, the read guard dropped
Broadcast(t) ==
    /\ flight.task[t] = "sending"
    /\ flight' = [flight EXCEPT !.readers = @ \ { t }, !.task[t] = "loop"]
    /\ RegistryUnchanged

\* server/mod.rs: handle_client, receive_message returns Ok(None) or Err:
\* the client is taken out of its list and the write guard dropped
Disconnect(t) ==
    /\ flight.task[t] = "loop"
    /\ flight' = [flight EXCEPT
                     !.writer[ListOf(t)] = 0,
                     !.controllers = SelectSeq(@, LAMBDA x : x # t),
                     !.pilots = SelectSeq(@, LAMBDA x : x # t),
                     !.task[t] = "ended"]
    /\ RegistryUnchanged

RegistryNext ==
    \E t \in Sessions :
        \/ Identify(t)
        \/ Unidentified(t)
        \/ RegisterClient(t)
        \/ \E forward_mode \in 0..2 : Message(t, forward_mode)
        \/ ReadRegistry(t)
        \/ Broadcast(t)
        \/ Disconnect(t)

\* the sessions of the relay of server/mod.rs
RegistrySpec == RegistryInit /\ [][RegistryNext]_vars

\* --------------------------------------------------------------------- role
\* The relay with clients that open their connection with a login or with a
\* message that selects no role, and that log in later on.

\* the first message of a client: its login or a position report
RoleLogins(c) ==
    IF c \in CtrlPeers
    THEN { [m |-> CtrlLogin(Call(c)), me |-> Call(c)],
           [m |-> CtrlPos(Call(c)), me |-> Call(c)] }
    ELSE { [m |-> PilotLogin(Call(c)), me |-> Call(c)],
           [m |-> PilotPos(Call(c)), me |-> Call(c)] }

\* the later messages of a client: a well-formed login or a position report
RoleMessages(c, cs) ==
    IF c \in CtrlPeers
    THEN { [m |-> CtrlLogin(cs), me |-> cs], [m |-> CtrlPos(cs), me |-> cs] }
    ELSE { [m |-> PilotLogin(cs), me |-> cs], [m |-> PilotPos(cs), me |-> cs] }

RoleMenu(c, first, cs) == IF first THEN RoleLogins(c) ELSE RoleMessages(c, cs)

RoleNext ==
    \/ \E c \in Conn :
          \/ \E e \in RoleMenu(c, first_message[c], me[c]) : Receive(c, e)
          \/ ReadEof(c)
          \/ ReadErr(c)
    \/ NextMessage

\* the relay server with connections that may speak before they log in
RoleSpec == Init /\ [][RoleNext]_vars


\* ---------------------------------------------------------------------
\* One departure for as long as the loop of run ticks, a tick every
\* radar_update_ms: the time since the spawn is followed up to MaxElapsed
\* only, which is past the five seconds that update compares it with
\* ---------------------------------------------------------------------

\* simulator.rs: update_aircraft, one tick for an aircraft it retains
Fly(in_db, near) ==
    /\ flight # << >>
    /\ ~is_route_complete(flight)
    /\ flight' = update([flight EXCEPT
                           !.elapsed = Min(flight.elapsed + radar_update_ms, MaxElapsed)],
                        in_db, near)
    /\ UNCHANGED << relayVars, frameVars, orderVars, poolVars, simVars >>

\* simulator.rs: get_cruise_altitude, filed levels below and above the 50 ft
\* of the rotation and one above the 10,000 ft where the rate of climb and
\* the target speed change
FlyLevels == { 0, 1, 110 }

\* simulator.rs: spawn_departure, the fixes of the route: every length with
\* the low levels, the longest with the high one
FlyRoutes(cruise_altitude) ==
    IF cruise_altitude > 1 THEN { MaxFixes } ELSE 0..MaxFixes

FlyInit ==
    /\ RelayInit
    /\ FrameIdle
    /\ OrderIdle
    /\ PoolIdle
    /\ SimIdle
    /\ \E cruise_altitude \in FlyLevels :
          \E route_len \in FlyRoutes(cruise_altitude) :
              flight = new_departure(route_len, cruise_altitude)

FlyNext ==
    \/ \E in_db, near \in BOOLEAN : Fly(in_db, near)
    \/ RemoveCompleted

\* the interval of run ticks for ever: an aircraft that update_aircraft
\* retains is updated again. Only the tick that the aircraft spends on its way
\* to a fix of the database is fair, no tick is made to reach a fix
FlySpec ==
    /\ FlyInit
    /\ [][FlyNext]_vars
    /\ WF_vars(Fly(TRUE, FALSE))
    /\ WF_vars(RemoveCompleted)

\* ------------------------------------------------------------------ claims
\* the connections the completed message has been written to (also in vain)
Recipients == { done.out[i].to : i \in 1..Len(done.out) }

\* the message connection c is busy with, or has just completed
Cur(c) ==
    IF done.from = c THEN done.msg
    ELSE IF pc[c] \in { "reg", "handle" } THEN << >>
    ELSE msg[c]

\* the MessageStatus of that message
CurStatus(c) == IF done.from = c THEN done.status ELSE status[c]

\* C1: whenever a Controller session S sends a message whose directive is
\* ForwardToOtherControllers, once the forward is over the message has been
\* written to every other Controller session of the registry and never to S,
\* also when S's callsign is still empty or shared with another controller.
BroadcastExclusion ==
    \A s \in CtrlPeers :
        ( /\ done.from = s
          /\ done.res = "ok"
          /\ handler_type[s] = "Controller"
          /\ done.status = ForwardToControllers )
        => /\ \A r \in Range(controllers) \ { s } : r \in Recipients
           /\ s \notin Recipients

\* C2: a connection whose first message starts with #AP becomes a Pilot and
\* is registered only in the Pilot collection; one whose first message starts
\* with #AA becomes a Controller, registered only in the Controller collection.
RoleClassification ==
    [][ \A c \in Conn :
          (first_message[c] /\ ~first_message'[c])
          => /\ StartsWith(Cur(c)', << "#", "A", "P" >>)
                => /\ handler_type'[c] = "Pilot"
                   /\ c \in Range(pilots')
                   /\ c \notin Range(controllers')
             /\ StartsWith(Cur(c)', << "#", "A", "A" >>)
                => /\ handler_type'[c] = "Controller"
                   /\ c \in Range(controllers')
                   /\ c \notin Range(pilots') ]_vars

\* C3: whenever a connection's handler task has ended (read EOF, read error,
\* or an error returned while handling or answering a message), its session
\* is in neither Registry collection.
SessionRemoval ==
    \A c \in Conn :
        pc[c] = "ended" => c \notin Range(controllers) /\ c \notin Range(pilots)

\* a task inside a socket write that never completes
IoBlocked(t) == pc[t] \in { "fwd_write", "fpq_write" }

\* the session whose socket the blocked task t is writing to
WriteTarget(t) == IF pc[t] = "fwd_write" THEN controllers[idx[t]] ELSE t

\* the task of s waits for a lock that t holds
WaitsOn(s, t) ==
    \/ pc[s] = "reg" /\ s \in CtrlPeers /\ ctrlLock = t
    \/ pc[s] = "reg" /\ s \in PilotPeers /\ pilotLock = t
    \/ pc[s] = "handle" /\ hLock[s] = t
    \/ pc[s] = "fwd" /\ ctrlLock = t
    \/ pc[s] = "fpq" /\ pilotLock = t
    \/ pc[s] = "fwd_lock" /\ hLock[controllers[idx[s]]] = t
    \/ pc[s] = "fpq_lock" /\ (hLock[s] = t \/ hLock[pilots[idx[s]]] = t)
    \/ pc[s] = "cleanup" /\ handler_type[s] = "Controller" /\ ctrlLock = t
    \/ pc[s] = "cleanup" /\ handler_type[s] = "Pilot" /\ pilotLock = t

\* C4: when a write of one session to another recipient never completes, no
\* third session waits on it: its messages are still handled and forwarded
\* and it can still be registered.
NoCrossSessionBlocking ==
    \A t \in Conn :
        ( /\ IoBlocked(t)
          /\ WriteTarget(t) # t
          /\ t \in PilotPeers => handler_type[t] = "Pilot" )
        => \A s \in Conn \ { t, WriteTarget(t) } : ~WaitsOn(s, t)

\* C5: a failed send to one recipient during a broadcast does not end the
\* broadcast; when it is over every other non-excluded controller of the
\* registry has been written to, successfully unless its own socket fails,
\* and the sender is still registered and running.
BestEffortFanOut ==
    /\ \A s \in Conn :
          ( /\ done.from = s
            /\ done.status \in { ForwardToControllers, ForwardToAllControllers }
            /\ \E i \in 1..Len(done.out) : ~done.out[i].ok )
          => /\ done.res = "ok"
             /\ pc[s] = "read"
             /\ s \in Range(controllers) \cup Range(pilots)
             /\ \A r \in Range(controllers) :
                   (done.excl = << >> \/ handler[r].callsign # done.excl)
                   => \E i \in 1..Len(done.out) :
                         /\ done.out[i].to = r
                         /\ peer[r] # "reset" => done.out[i].ok
    /\ \A s \in Conn :
          ( /\ pc[s] \in { "fwd_write", "fwd_lock" }
            /\ \E i \in 1..Len(out[s]) : ~out[s][i].ok )
          => /\ ctrlLock = s
             /\ s \in Range(controllers) \cup Range(pilots)
             /\ idx[s] > Len(out[s])

BestEffortFanOutWitness ==
    /\ done.from # 0
    /\ Range(controllers) \subseteq CtrlPeers
    /\ done.res = "ok"
    /\ done.status \in { ForwardToControllers, ForwardToAllControllers }
    /\ \E i, j \in 1..Len(done.out) :
          /\ i < j
          /\ ~done.out[i].ok
          /\ done.out[i].to # done.from
          /\ done.out[j].ok
          /\ done.out[j].to # done.from

\* the lines of a byte stream that end in CRLF, the empty ones left out
NonEmptyLines(s) ==
    LET pieces == Split(s, CRLF)
    IN  NonEmpty(SubSeq(pieces, 1, Len(pieces) - 1))

\* C6: for every split of a connection's byte stream into socket reads, the
\* messages passed to the role handler are the non-empty CRLF-terminated
\* lines of the whole stream.
FramingIndependentOfChunking ==
    rest = << >> => handledMsgs = NonEmptyLines(stream)

\* C7: every non-login message received from a Pilot session is forwarded to
\* all controllers: it is written, as sent and followed by CRLF, to the
\* controllers of the registry in turn, none excluded.
PilotFanOut ==
    \A s \in Conn :
        ( /\ handler_type[s] = "Pilot"
          /\ Cur(s) # << >>
          /\ ~StartsWith(Cur(s), << "#", "A", "P" >>) )
        => /\ CurStatus(s) = ForwardToAllControllers
           /\ done.from = s
              => /\ done.res = "ok"
                 /\ Len(done.out) = Len(controllers)
                 /\ \A i \in 1..Len(done.out) :
                       /\ done.out[i].to = controllers[i]
                       /\ done.out[i].data = done.msg \o << "\r", "\n" >>
           /\ done.from # s
              => /\ pc[s] \in { "fwd", "fwd_write", "fwd_lock" }
                 /\ pc[s] # "fwd"
                    => /\ Len(out[s]) = idx[s] - 1
                       /\ \A i \in 1..Len(out[s]) :
                             /\ out[s][i].to = controllers[i]
                             /\ out[s][i].data = msg[s] \o << "\r", "\n" >>

PilotFanOutWitness ==
    /\ done.from # 0
    /\ handler_type[done.from] = "Pilot"
    /\ done.res = "ok"
    /\ Len(controllers) = 2
    /\ \E r \in Range(controllers) : handler[r].callsign = << >>
    /\ \A i \in 1..Len(done.out) : done.out[i].ok
    /\ Len(done.out) = 2

\* the message m is a handoff, or a query for the callsign own with a
\* subtype other than IP and FP
HandoffOrOtherQuery(m, own) ==
    LET parts == Split(m, << ":" >>)
    IN  \/ StartsWith(m, << "$", "H", "O" >>)
        \/ StartsWith(m, << "$", "H", "A" >>)
        \/ /\ parts[1] = << "$", "C", "Q" >> \o own
           /\ Len(parts) >= 3
           /\ parts[3] \notin { << "I", "P" >>, << "F", "P" >> }

\* C8: a $HO or $HA message, or a $CQ query for the controller's own callsign
\* with a subtype other than IP and FP, sent by a Controller session has the
\* directive ForwardToAllControllers and is written to all controllers of
\* the registry, the sender included.
HandoffAndQueryToAll ==
    \A s \in CtrlPeers :
        ( /\ handler_type[s] = "Controller"
          /\ handler[s].callsign # << >>
          /\ Cur(s) # << >>
          /\ HandoffOrOtherQuery(Cur(s), handler[s].callsign) )
        => /\ CurStatus(s) = ForwardToAllControllers
           /\ (done.from = s /\ done.res = "ok")
              => Range(controllers) \subseteq Recipients

\* the message m is a flight-plan query for the callsign own with a pilot
\* callsign in its fourth field
OwnFlightPlanQuery(m, own) ==
    LET parts == Split(m, << ":" >>)
    IN  /\ parts[1] = << "$", "C", "Q" >> \o own
        /\ Len(parts) >= 4
        /\ parts[3] = << "F", "P" >>

\* what controller c is to receive about pilot p in answer to the query m:
\* the cached flight plan, when there is one, then the squawk message
FlightPlanAnswer(c, m, p) ==
    LET parts == Split(m, << ":" >>)
        fp == [to |-> c,
               data |-> Join(handler[p].fp_message, << ":" >>) \o << "\r", "\n" >>,
               ok |-> TRUE]
        sq == [to |-> c,
               data |-> << "$", "C", "Q" >> \o parts[2] \o << ":" >> \o parts[2]
                        \o << ":", "B", "C", ":" >> \o parts[4] \o << ":" >>
                        \o handler[p].squawk \o << "\r", "\n" >>,
               ok |-> TRUE]
    IN  IF handler[p].fp_message # << >> THEN << fp, sq >> ELSE << sq >>

\* C9: when Controller C sends a flight-plan query naming a registered pilot
\* P, the query is forwarded to no session, every write goes to C alone, and
\* when the answer is complete C has been sent P's cached flight plan (when
\* P has filed one) followed by a squawk message with P's cached squawk.
FlightPlanQueryUnicast ==
    \A c \in Conn :
        ( /\ handler_type[c] = "Controller"
          /\ Cur(c) # << >>
          /\ OwnFlightPlanQuery(Cur(c), handler[c].callsign) )
        => /\ CurStatus(c) = Handled
           /\ done.from # c
              => /\ pc[c] \in { "fpq", "fpq_write", "fpq_lock" }
                 /\ \A i \in 1..Len(out[c]) :
                       /\ out[c][i].to = c
                       /\ out[c][i].data # msg[c] \o << "\r", "\n" >>
           /\ done.from = c
              => /\ \A i \in 1..Len(done.out) :
                       /\ done.out[i].to = c
                       /\ done.out[i].data # done.msg \o << "\r", "\n" >>
                 /\ done.res = "ok"
                    => LET plane == Split(done.msg, << ":" >>)[4]
                       IN  /\ (\E p \in Range(pilots) : handler[p].callsign = plane)
                              => done.found # 0
                           /\ done.found # 0
                              => /\ done.found \in Range(pilots)
                                 /\ handler[done.found].callsign = plane
                                 /\ done.out = FlightPlanAnswer(c, done.msg, done.found)

FlightPlanQueryUnicastWitness ==
    /\ done.from # 0
    /\ handler_type[done.from] = "Controller"
    /\ OwnFlightPlanQuery(done.msg, handler[done.from].callsign)
    /\ done.res = "ok"
    /\ done.found # 0
    /\ handler[done.found].fp_message # << >>
    /\ Len(done.out) = 2

\* the callsign embedded in a position or query message m differs from own
CallsignMismatch(role, own, m) ==
    LET parts == Split(m, << ":" >>)
    IN  \/ /\ role = "Controller"
           /\ StartsWith(m, << "%" >>)
           /\ SubSeq(parts[1], 2, Len(parts[1])) # own
        \/ /\ role = "Controller"
           /\ StartsWith(m, << "$", "C", "Q" >>)
           /\ SubSeq(parts[1], 4, Len(parts[1])) # own
        \/ /\ role = "Pilot"
           /\ StartsWith(m, << "@", "N" >>)
           /\ Len(parts) >= 2
           /\ parts[2] # own

\* C10: a % position or $CQ query arriving on a Controller session, or an @N
\* position arriving on a Pilot session, whose embedded callsign is not the
\* session's own callsign leaves every cached field of the session unchanged
\* and is forwarded to nobody.
CallsignMismatchIgnored ==
    [][ \A c \in Conn :
          ( /\ pc[c] = "read"
            /\ ~first_message[c]
            /\ handler[c].callsign # << >>
            /\ reads' = reads + 1
            /\ Cur(c)' # << >>
            /\ CallsignMismatch(handler_type[c], handler[c].callsign, Cur(c)') )
          => /\ handler'[c] = handler[c]
             /\ CurStatus(c)' = Handled
             /\ pc'[c] # "fwd" ]_vars

\* the messages of sender s among what was written to r, in the order written
FromSender(r, s) == SelectSeq(wire[r], LAMBDA e : e.from = s)

\* C11: for every sender session S and every recipient controller R, the
\* messages of S written to R are written in the order in which S sent them,
\* each once and as sent, whatever the other sessions forward in between.
PerConnectionOrdering ==
    \A r \in Conn : \A s \in Conn :
        LET w == FromSender(r, s)
        IN  /\ \A i \in 1..Len(w) : \A j \in 1..Len(w) : i < j => w[i].n < w[j].n
            /\ \A i \in 1..Len(w) :
                  /\ w[i].n \in 1..sent[s]
                  /\ w[i].data = NthMessage(s, w[i].n) \o << "\r", "\n" >>

PerConnectionOrderingWitness ==
    \E r \in Conn :
        \E i \in 1..Len(wire[r]) : \E j \in 1..Len(wire[r]) : \E k \in 1..Len(wire[r]) :
            /\ i < j
            /\ j < k
            /\ wire[r][i].from = wire[r][k].from
            /\ wire[r][j].from # wire[r][i].from
            /\ wire[r][i].n = 1
            /\ wire[r][k].n = 2

\* the message m, arriving on a session of the given role, is a controller
\* login with fewer than 12 fields, a controller position with fewer than 7
\* fields or a pilot login with fewer than 8 fields
ShortMessage(role, m) ==
    LET parts == Split(m, << ":" >>)
    IN  \/ /\ role = "Controller"
           /\ StartsWith(m, << "#", "A", "A" >>)
           /\ Len(parts) < 12
        \/ /\ role = "Controller"
           /\ StartsWith(m, << "%" >>)
           /\ Len(parts) < 7
        \/ /\ role = "Pilot"
           /\ StartsWith(m, << "#", "A", "P" >>)
           /\ Len(parts) < 8

\* C12: a controller login with fewer than 12 fields, a pilot login with
\* fewer than 8 fields or a controller position with fewer than 7 fields
\* changes no cached field of the session, is written to nobody, and leaves
\* the connection reading its next message.
ShortMessagesDropped ==
    [][ \A c \in Conn :
          ( /\ pc[c] = "read"
            /\ reads' = reads + 1
            /\ done'.from = c
            /\ first_message[c] \/ handler[c].callsign # << >>
            /\ ShortMessage(handler_type'[c], done'.msg) )
          => /\ first_message[c] \/ handler'[c] = handler[c]
             /\ first_message[c] =>
                   handler'[c] \in { ControllerNew, PilotNew }
             /\ done'.out = << >>
             /\ pc'[c] = "read" ]_vars

\* C13: the flight plan a pilot session caches, joined again, is the $FP
\* message the pilot sent, empty fields included, and the flight-plan text
\* written in answer to an FP query is that text of the pilot asked about,
\* followed by CRLF.
FlightPlanRoundTrip ==
    /\ \A p \in Conn :
          ( /\ done.from = p
            /\ handler_type[p] = "Pilot"
            /\ StartsWith(done.msg, << "$", "F", "P" >>) )
          => Join(handler[p].fp_message, << ":" >>) = done.msg
    /\ \A c \in Conn :
          ( /\ done.from = c
            /\ handler_type[c] = "Controller"
            /\ OwnFlightPlanQuery(done.msg, handler[c].callsign)
            /\ done.found # 0
            /\ done.out # << >> )
          => LET p == done.found
             IN  /\ handler[p].callsign = Split(done.msg, << ":" >>)[4]
                 /\ handler[p].fp_message # << >>
                    => /\ done.out[1].to = c
                       /\ done.out[1].data
                             = Join(handler[p].fp_message, << ":" >>) \o << "\r", "\n" >>

FlightPlanRoundTripWitness ==
    /\ done.from # 0
    /\ handler_type[done.from] = "Controller"
    /\ done.found # 0
    /\ done.res = "ok"
    /\ Len(done.out) = 2
    /\ LET fp == handler[done.found].fp_message
       IN  /\ Len(fp) >= 3
           /\ fp[Len(fp)] = << >>
           /\ fp[2] = << >>
           /\ done.out[1].data = Join(fp, << ":" >>) \o << "\r", "\n" >>

\* C14: the squawks handed out since the start, with no aircraft removed,
\* are pairwise distinct, and no more squawks are handed out than the pool
\* held: the spawn after the last squawk of the pool fails.
SquawkUniqueness ==
    /\ Cardinality(Range(assigned)) = Len(assigned)
    /\ Len(assigned) <= Len(get_ccams_squawks)
\* ------------------------------------------------------- simulator claims

\* C15: squawk release on removal. While no spawn has failed, the squawks
\* left in the pool and the live aircraft together number the initial pool:
\* the squawk of an aircraft removed for route completion is back in the pool.
SquawkReleaseOnRemoval ==
    run_result \in { "running", "shutdown" } =>
        Len(squawk_pool) + Len(aircraft) = Len(get_ccams_squawks)

\* the callsigns of the live aircraft
LiveCallsigns == { aircraft[i].callsign : i \in 1..Len(aircraft) }

\* C18: callsign uniqueness. The live aircraft have pairwise distinct
\* callsigns, a generation makes at most 100 attempts, and the callsigns in
\* use are those of the live aircraft, so that of a removed aircraft can be
\* drawn again from the tick of its removal.
CallsignUniqueness ==
    /\ \A i, j \in 1..Len(aircraft) :
          i # j => aircraft[i].callsign # aircraft[j].callsign
    /\ attempts <= CallsignAttempts
    /\ used_callsigns = LiveCallsigns

\* a generation has rejected a draw, while an aircraft is live and more
\* aircraft have spawned than there are callsigns: one was drawn again after
\* a removal
CallsignUniquenessWitness ==
    /\ sim_pc = "generate_callsign"
    /\ attempts >= 1
    /\ Len(aircraft) >= 1
    /\ Len(get_ccams_squawks) - Len(squawk_pool) > NCallsigns

\* C16: session teardown on removal. After every tick the callsigns with an
\* open pilot session are callsigns of live aircraft: the session of an
\* aircraft removed for route completion is dropped in the tick of the removal.
SessionTeardownOnRemoval ==
    sim_pc = "tick" => pilot_clients \subseteq LiveCallsigns

\* C17: spawn failures are local. The loop of run is never ended by the
\* failure of a spawn: it runs until the shutdown signal.
SpawnFailuresLocal == run_result \in { "running", "shutdown" }

\* -------------------------------------------------------- aircraft claims

\* C19: phase gating. An aircraft on the ground has ground speed 0; a tick
\* at which less than 5 seconds have passed since its spawn leaves it on the
\* ground with ground speed 0, and the first tick at which 5 seconds or more
\* have passed makes it Departing.
PhaseGating ==
    [][ (flight # << >> /\ flight' # << >> /\ flight.phase = "OnGround") =>
            /\ flight.ground_speed = 0
            /\ IF flight'.elapsed < 5000
               THEN flight'.phase = "OnGround" /\ flight'.ground_speed = 0
               ELSE flight'.phase = "Departing" ]_vars

\* the aircraft has left the ground at the tick exactly 5 seconds after its
\* spawn
PhaseGatingWitness ==
    /\ flight # << >>
    /\ flight.phase = "Departing"
    /\ flight.ground_speed = 10
    /\ flight.elapsed = 5000

\* C20: cursor invariant. The cursor of the route never passes the length
\* of the route, is_route_complete says that it has reached it, and a tick
\* leaves the cursor where it is or moves it on by one fix.
CursorInvariant ==
    /\ [](flight # << >> =>
            /\ flight.current_fix_index <= flight.route_len
            /\ is_route_complete(flight) <=>
                  (flight.current_fix_index >= flight.route_len))
    /\ [][ (flight # << >> /\ flight' # << >>) =>
              /\ flight'.current_fix_index >= flight.current_fix_index
              /\ flight'.current_fix_index <= flight.current_fix_index + 1 ]_vars

\* the cursor has moved fix by fix to the end of a route of two fixes or more
CursorInvariantWitness ==
    /\ flight # << >>
    /\ flight.route_len >= 2
    /\ flight.current_fix_index = flight.route_len
    /\ flight.phase = "Cruise"


\* ---------------------------------------------------------------------
\* Claims about the climb of an aircraft (FlySpec)
\* ---------------------------------------------------------------------

\* an update takes the aircraft into Cruise
EntersCruise ==
    /\ flight # << >>
    /\ flight' # << >>
    /\ flight.phase # "Cruise"
    /\ flight'.phase = "Cruise"

\* what C31 says of the tick that enters Cruise and of the ticks in Cruise
CruiseEntry ==
    [][ /\ EntersCruise
           => /\ flight'.altitude = flight'.cruise_altitude * 100
              /\ flight'.target_speed = cruise_speed
        /\ (flight # << >> /\ flight' # << >> /\ flight.phase = "Cruise")
           => flight'.altitude = flight.altitude ]_vars

\* C31 as stated. Cruise clamp: after every tick the altitude is at most
\* the filed cruise altitude; the tick that enters Cruise leaves the
\* altitude at the cruise altitude and the target speed at the cruise speed;
\* in Cruise the altitude does not change.
CruiseClampAnyLevel ==
    /\ [](flight # << >> => flight.altitude <= flight.cruise_altitude * 100)
    /\ CruiseEntry

\* C31. Cruise clamp, for a filed cruise of flight level 1 or more: after
\* every tick the altitude is at most the filed cruise altitude; the tick
\* that enters Cruise leaves the altitude at the cruise altitude and the
\* target speed at the cruise speed; in Cruise the altitude does not change.
CruiseClamp ==
    /\ [](flight # << >> /\ flight.cruise_altitude >= 1
          => flight.altitude <= flight.cruise_altitude * 100)
    /\ CruiseEntry

CruiseClampWitness ==
    /\ flight # << >>
    /\ flight.phase = "Cruise"
    /\ flight.altitude = flight.cruise_altitude * 100
    /\ flight.altitude > 10000
    /\ flight.target_speed = cruise_speed
    /\ flight.ground_speed > 300

\* the aircraft is live in the given phase
InPhase(p) == flight # << >> /\ flight.phase = p

\* the aircraft has been removed with its route complete
Removed == flight = << >>

AtCruiseSpeed == InPhase("Cruise") /\ flight.ground_speed >= cruise_speed

\* C32 as stated. Climb progress: an aircraft that has left OnGround
\* reaches Climbing with 150 kt or more, then Cruise at its cruise altitude,
\* then its cruise speed, whatever its route.
ClimbProgressAnyRoute ==
    /\ InPhase("Departing") ~> (InPhase("Climbing") /\ flight.ground_speed >= 150)
    /\ InPhase("Climbing")
          ~> (InPhase("Cruise") /\ flight.altitude = flight.cruise_altitude * 100)
    /\ InPhase("Cruise") ~> AtCruiseSpeed

\* C32. Climb progress: an aircraft that has left OnGround reaches Climbing
\* with 150 kt or more; from Climbing it reaches Cruise at its cruise
\* altitude, and from Cruise its cruise speed, unless its route is
\* completed before and the aircraft is removed.
ClimbProgress ==
    /\ InPhase("Departing") ~> (InPhase("Climbing") /\ flight.ground_speed >= 150)
    /\ InPhase("Climbing")
          ~> \/ InPhase("Cruise") /\ flight.altitude = flight.cruise_altitude * 100
             \/ Removed
    /\ InPhase("Cruise") ~> (AtCruiseSpeed \/ Removed)

ClimbProgressWitness ==
    /\ AtCruiseSpeed
    /\ flight.altitude = flight.cruise_altitude * 100
    /\ flight.altitude > 10000
    /\ flight.current_fix_index = 0
    /\ flight.route_len = MaxFixes

\* C33. Heading range: from its spawn on, the heading of an aircraft is an
\* integer in [0,360), the heading taken from the runway identifier and the
\* heading after every turn step included.
HeadingRange == flight.heading \in 0..359

\* an aircraft spawned on a runway other than 36 that has turned
HeadingRangeWitness ==
    /\ flight.start \in 0..359
    /\ flight.steps >= 1
    /\ flight.heading # flight.start
    /\ flight.heading \in 0..359

\* C34. Aircraft-session pairing: after every tick each live aircraft has a
\* pilot session of its callsign, through which its position is sent; a
\* failed position send leaves no aircraft alive without a session.
AircraftSessionPairing ==
    (sim_pc = "tick" /\ run_result = "running")
        => \A i \in 1..Len(aircraft) : aircraft[i].callsign \in pilot_clients

\* C35. Departure timers: whenever the loop of run is between two ticks or
\* has ended, the last spawn attempt of every airport's timer is at the last
\* multiple of its interval that the loop count has reached: attempts occur
\* exactly at the ticks I, 2I, 3I, ... of an interval of I ticks, and no
\* timer delays or suppresses another.
DepartureTimers ==
    sim_pc \in { "tick", "returned", "stopped" }
        => \A k \in 1..Len(departure_timers) :
              LET t == departure_timers[k]
              IN  t.last_spawn = (loop_count \div t.interval) * t.interval

\* C36. Transit spawns: the tick on which the timer of a transit group with
\* a route is due adds a new aircraft to the live aircraft together with a
\* pilot session of its callsign, as a departure spawn does.
TransitSpawns ==
    [][ (\E k \in 1..Len(flight.transit_timers) :
            /\ flight.transit_timers[k].routes
            /\ transit_due(flight.transit_timers[k], flight'.loop_count))
        => /\ Len(flight'.aircraft) > Len(flight.aircraft)
           /\ \E c \in flight'.pilot_clients : c \notin flight.pilot_clients ]_vars

\* a step of spawn_departure that fails and ends run with its error
SpawnFails ==
    /\ sim_pc \in { "timers", "generate_callsign" }
    /\ simulator'.pc = "returned"
    /\ simulator'.run_result \notin { "running", "shutdown" }

\* C40. A spawn attempt that fails at any step leaves the squawk pool, the
\* used callsigns, the live aircraft and the pilot sessions as they were
\* before the attempt.
FailedSpawnUnchanged ==
    [][ SpawnFails
        => /\ simulator'.squawk_pool = squawk_pool
           /\ simulator'.used_callsigns = used_callsigns
           /\ simulator'.aircraft = aircraft
           /\ simulator'.pilot_clients = pilot_clients ]_vars

\* the task t waits for a mutex that a task keeps
Waiting(t) ==
    /\ flight.todo[t] # << >>
    /\ NextStep(t)[1] \in { "lock", "each_controller", "find_pilot" }
    /\ flight.owner[NextStep(t)[2]] # 0

WaitsFor(t) == flight.owner[NextStep(t)[2]]

\* C38. Deadlock freedom of the relay: with every write returning, in no
\* reachable state is there a set of tasks each of which waits for a mutex
\* kept by a task of the set.
DeadlockFreedom ==
    ~ \E S \in SUBSET Sessions :
          /\ S # { }
          /\ \A t \in S : Waiting(t) /\ WaitsFor(t) \in S

\* a controller answering a flight plan query keeps the mutex of the pilots
\* and of the pilot's handler and waits for its own handler, which a task
\* forwarding to it keeps together with the mutex of the controllers
DeadlockFreedomWitness ==
    \E t \in LockControllers : \E u \in Sessions \ { t } :
        /\ Waiting(t)
        /\ NextStep(t)[2] = handler_lock(t)
        /\ WaitsFor(t) = u
        /\ flight.owner[pilots_lock] = t
        /\ flight.owner[controllers_lock] = u

\* the session that keeps t from the lock of the registry t waits for: the
\* writer of its list for a session registering, the writer of the
\* controllers for a session about to broadcast; 0 when there is none
KeptOutBy(t) ==
    IF flight.task[t] = "register" THEN flight.writer[ListOf(t)]
    ELSE IF flight.task[t] = "broadcast" THEN flight.writer.controllers
    ELSE 0

\* C37. The lock of the registry is not kept across the lifetime of a
\* session: a session that waits for it, to register or to broadcast its
\* message, is never kept out by a session that is connected and waits for a
\* message or for the lock itself.
RegistryLockReleased ==
    \A t \in Sessions :
        KeptOutBy(t) # 0 => flight.task[KeptOutBy(t)] \notin { "loop", "broadcast" }

\* the connection c has spoken and has no role
Roleless(c) == ~first_message[c] /\ handler_type[c] = "None"

\* C39. The role of a connection is fixed by its first message only: the
\* role changes on the first message and never afterwards; a connection
\* without a role after its first message is in neither collection, has no
\* handler, and its messages, a later login included, are neither handled
\* nor forwarded.
RoleFixedByFirstMessage ==
    /\ [](\A c \in Conn :
             Roleless(c)
                => /\ c \notin Range(controllers)
                   /\ c \notin Range(pilots)
                   /\ handler[c] = NoHandler
                   /\ done.from = c => (done.status = "None" /\ done.out = << >>))
    /\ [][\A c \in Conn :
             handler_type'[c] # handler_type[c]
                => first_message[c] /\ handler_type[c] = "None"]_vars

\* a connection that opened with a position report has sent a well-formed
\* login since, which was not handled
RoleFixedByFirstMessageWitness ==
    \E c \in Conn :
        /\ Roleless(c)
        /\ done.from = c
        /\ ClassifyRole(done.msg) # "None"
        /\ done.status = "None"
\* ------------------------------------------------------ empty-route claim

\* C21: empty route. A live aircraft whose route has no fix is complete from
\* its creation, update has never run for it, and it does not outlive the
\* tick of its spawn: no such aircraft is live between two ticks.
EmptyRoute ==
    \A i \in 1..Len(aircraft) :
        aircraft[i].route_len = 0 =>
            /\ is_route_complete(aircraft[i])
            /\ ~aircraft[i].updated
            /\ sim_pc # "tick"

\* the tick of the first spawn is over: its aircraft, with no fix on its
\* route, has been removed (a route with a fix is not complete in the tick of
\* the spawn), and its pilot session tells that it had spawned
EmptyRouteWitness ==
    /\ sim_pc = "tick"
    /\ loop_count >= 1
    /\ aircraft = << >>
    /\ Len(squawk_pool) + 1 = Len(get_ccams_squawks)
    /\ pilot_clients # { }
    /\ \A i \in 1..Len(departure_timers) :
          departure_timers[i].last_spawn \in { 0, loop_count }
    /\ \E i \in 1..Len(departure_timers) : departure_timers[i].last_spawn = loop_count

\* ------------------------------------------------------------- turn claims

\* the signed shortest angle from the heading h to the target t, in -180..179
ShortestDiff(h, t) == ((t - h + 180) % 360) - 180

\* the angle left between the heading h and the target t
Remaining(h, t) == Abs(ShortestDiff(h, t))

\* ceil(|signed diff| / (rate * dt)) for the heading the turn started from
StepsBound(f) == (10 * Remaining(f.start, f.target) + f.tenths - 1) \div f.tenths

\* the target is reached exactly within the bound of steps, and a call of
\* turn_towards neither lets the remaining angle grow nor takes the heading
\* past the target
Converges ==
    /\ [](flight.steps >= StepsBound(flight) => flight.heading = flight.target)
    /\ [][ /\ Remaining(flight'.heading, flight.target)
                <= Remaining(flight.heading, flight.target)
           /\ ShortestDiff(flight'.heading, flight.target)
                * ShortestDiff(flight.heading, flight.target) >= 0 ]_vars

InRange(f) == f.start \in 0..359 /\ (f.tenths <= 10 \/ f.tenths % 10 = 0)

FirstToken == split_whitespace(flight.route)[1]
LastToken == split_whitespace(flight.route)[Len(split_whitespace(flight.route))]

\* a token is a fix when it is 3 to 6 upper-case letters and not DCT
FixToken(t) ==
    /\ Len(t) >= 3
    /\ Len(t) <= 6
    /\ \A i \in 1..Len(t) : is_uppercase(t[i])
    /\ t # << "D", "C", "T" >>

\* an airway designator: one letter or more, then one digit or more
AirwayToken(t) ==
    \E k \in 1..(Len(t) - 1) :
        /\ \A i \in 1..k : is_uppercase(t[i])
        /\ \A i \in (k + 1)..Len(t) : is_numeric(t[i])

\* the fix tokens of the filed route, in filed order
FiledFixes == SelectSeq(split_whitespace(flight.route), FixToken)

\* a runway: two digits, then L, R or C or nothing
Runway(r) ==
    /\ Len(r) \in { 2, 3 }
    /\ is_numeric(r[1])
    /\ is_numeric(r[2])
    /\ Len(r) = 3 => r[3] \in { "L", "R", "C" }

\* a token NAME/RUNWAY, and what the file holds for it, << >> for no entry
Procedure(t) ==
    /\ Contains(t, SLASH)
    /\ Len(Split(t, SLASH)) = 2
    /\ Runway(Split(t, SLASH)[2])
TableFixes(file, kind, t) ==
    IF file.state # "read" THEN << >>
    ELSE get(load_lines(file.lines, kind), Split(t, SLASH)[1], Split(t, SLASH)[2])

Resolved == flight # << >> /\ "by" \in DOMAIN flight /\ flight.by # "filed"

\* the filed route has no token with a slash after the first
OnlyFirstProcedure ==
    \A i \in 2..Len(split_whitespace(flight.route)) :
        ~Contains(split_whitespace(flight.route)[i], SLASH)

\* C23. SID expansion: when the first token of the filed route is
\* NAME/RUNWAY and Sids.txt of the departure airport has an entry for that
\* name and runway, the resolved list is the fixes of that entry followed
\* by the fix tokens of the route in filed order, without the first of them
\* when it equals the last fix of the SID.
SidExpansion ==
    (/\ Resolved
     /\ Procedure(FirstToken)
     /\ OnlyFirstProcedure
     /\ TableFixes(flight.sids, << "S", "I", "D" >>, FirstToken) # << >>)
    => LET sid == split_whitespace(TableFixes(flight.sids, << "S", "I", "D" >>, FirstToken)[1])
           enroute == IF Len(FiledFixes) > 0 /\ Len(sid) > 0
                         /\ FiledFixes[1] = sid[Len(sid)]
                      THEN Tail(FiledFixes) ELSE FiledFixes
       IN  flight.fixes = sid \o enroute

\* C24. STAR expansion: when the last token of the filed route is
\* NAME/RUNWAY and Stars.txt of the arrival airport has an entry for that
\* name and runway, the resolved list ends with the fixes of that entry.
StarExpansion ==
    (/\ Resolved
     /\ Procedure(LastToken)
     /\ TableFixes(flight.stars, << "S", "T", "A", "R" >>, LastToken) # << >>)
    => LET star == split_whitespace(TableFixes(flight.stars, << "S", "T", "A", "R" >>, LastToken)[1])
           n == Len(flight.fixes)
       IN  /\ n >= Len(star)
           /\ SubSeq(flight.fixes, n - Len(star) + 1, n) = star

\* C25. Token classification: the resolved list holds no airway designator
\* and no DCT, and for a route that names no procedure it is exactly the
\* fix tokens of the route in filed order.
TokenClassification ==
    Resolved
    => /\ \A i \in 1..Len(flight.fixes) :
              flight.fixes[i] # << "D", "C", "T" >> /\ ~AirwayToken(flight.fixes[i])
       /\ (\A i \in 1..Len(split_whitespace(flight.route)) :
               ~Contains(split_whitespace(flight.route)[i], SLASH))
          => flight.fixes = FiledFixes

\* C26. Waypoint names: every name of a resolved list, those of a SID or
\* STAR included, is 3 to 6 upper-case letters.
WaypointNames ==
    Resolved
    => \A i \in 1..Len(flight.fixes) :
           /\ Len(flight.fixes[i]) >= 3
           /\ Len(flight.fixes[i]) <= 6
           /\ \A k \in 1..Len(flight.fixes[i]) : is_uppercase(flight.fixes[i][k])

\* the SID named by the first token is not found: Sids.txt cannot be read,
\* or it has no entry of that name for the runway of the lookup, which is
\* the active runway for an Aircraft and the filed one for a Route
SidMiss ==
    /\ Procedure(FirstToken)
    /\ \/ flight.sids.state # "read"
       \/ get(load_lines(flight.sids.lines, << "S", "I", "D" >>), Split(FirstToken, SLASH)[1],
              IF flight.by = "Route" THEN Split(FirstToken, SLASH)[2]
              ELSE flight.runway) = << >>

\* the filed route without its first token
Enroute == Join(Tail(split_whitespace(flight.route)), SPACE)

\* C27. Resolution miss: when the SID of the first token is not found, or
\* Sids.txt cannot be read, the resolved list is the list that the enroute
\* part of the route resolves to by itself, every name of it is a token of
\* the filed route, and the aircraft is created all the same.
ResolutionMiss ==
    LET tokens == split_whitespace(flight.route)
        names == [ k \in 1..Len(tokens) |-> to_uppercase(tokens[k]) ]
    IN  (Resolved /\ SidMiss /\ OnlyFirstProcedure)
        => /\ flight.by = "Aircraft"
              => flight.fixes
                     = route_fixes_of(flight.sids, Enroute, flight.runway)
           /\ flight.by = "Route"
              => flight.fixes = initialize_fixes_from_route(Enroute)
           /\ \A i \in 1..Len(flight.fixes) :
                  \E k \in 1..Len(tokens) : flight.fixes[i] = names[k]

ResolutionMissWitness ==
    /\ Resolved
    /\ flight.by = "Aircraft"
    /\ flight.route = << "B", "P", "K", "5", "K", "/", "0", "9", "L", " ", "D", "V", "R", " ", "U", "L", "9", " ", "K", "O", "N", "A", "N" >>
    /\ flight.runway = << "2", "7", "R" >>
    /\ flight.sids = EgllSids
    /\ SidMiss
    /\ flight.fixes = << << "D", "V", "R" >>, << "K", "O", "N", "A", "N" >> >>

\* ---------------------------------------------------------------------
\* Claims about the shutdown of the simulator (SimSpec)
\* ---------------------------------------------------------------------

\* C28. Cooperative shutdown: run takes the shutdown signal between two
\* ticks only, no tick starts once it has taken it, and stop leaves no pilot
\* session and no AI controller session in the collections of the simulator
\* and has disconnected every one of them, also when a disconnect fails.
CooperativeShutdown ==
    [][ /\ (run_result = "running" /\ run_result' = "shutdown")
           => (sim_pc = "tick" /\ shutdown)
        /\ run_result = "shutdown" => loop_count' = loop_count
        /\ (sim_pc = "returned" /\ sim_pc' = "stopped")
           => /\ pilot_clients' = { }
              /\ ai_controllers' = << >>
              /\ pilot_clients \subseteq disconnected'.pilots
              /\ Range(ai_controllers) \subseteq disconnected'.controllers ]_vars

\* ---------------------------------------------------------------------
\* Claims about normalize_heading (NormSpec)
\* ---------------------------------------------------------------------

\* C29. Heading normalization: for every 32-bit heading, the negative ones
\* and those at the limits of i32 included, normalize_heading gives a value
\* from 0 to 359 that differs from the heading by a multiple of 360.
HeadingNormalization ==
    flight.normalized # << >>
    => /\ flight.normalized[1] \in 0..359
       /\ flight.normalized[1] % 360 = flight.heading % 360

HeadingNormalizationWitness ==
    /\ flight.heading = I32Min
    /\ flight.normalized = << 232 >>

\* ---------------------------------------------------------------------
\* Claims about the phases of an aircraft (AircraftSpec)
\* ---------------------------------------------------------------------

\* the phase that follows a phase of the engine
NextPhase ==
    [ OnGround |-> "Departing", Departing |-> "Climbing", Climbing |-> "Cruise",
      Cruise |-> "Cruise" ]

\* C30. Phase order: the phase of an aircraft is one of OnGround, Departing,
\* Climbing and Cruise, and an update leaves it as it is or moves it to the
\* next of them: never backward, never over one, never out of Cruise.
PhaseOrder ==
    /\ [](flight # << >> => flight.phase \in DOMAIN NextPhase)
    /\ [][ (flight # << >> /\ flight' # << >>)
           => flight'.phase \in { flight.phase, NextPhase[flight.phase] } ]_vars

PhaseOrderWitness ==
    /\ flight # << >>
    /\ flight.phase = "Cruise"
    /\ flight.altitude = flight.cruise_altitude * 100
    /\ flight.ground_speed > 150
====
